---------------------------- MODULE Spec2Model ----------------------------
(***************************************************************************)
(* Model of the positional-index codec of COL764_A1:                       *)
(*   src/compress_index.py    variable_byte_encode, variable_byte_encode_  *)
(*                            list, delta_encode, compress_index           *)
(*   src/decompress_index.py  variable_byte_decode, delta_decode,          *)
(*                            decompress_index                             *)
(* Bytes objects are sequences over 0..255, Python strings are sequences   *)
(* of code points (sorted() compares them code point by code point), a     *)
(* dict is the sequence of its items in insertion order, and a directory   *)
(* is a record of the contents of its files and the set of their names.    *)
(***************************************************************************)
EXTENDS Integers, Sequences, FiniteSets, TLC

VARIABLES
    \* the codec functions called on their own
    codecPc, vbNumber, vbData, vbErr, vbResult, gapIn, gapMid, gapOut,
    \* compress_index: its input, the directory it writes and its locals
    index, dir, cpc, cerr, sorted_doc_ids, doc_id_to_int, sorted_terms,
    termIdx, current_offset, metadata,
    \* the environment: a second compress call, a truncated blob
    run, firstRun, truncated,
    \* decompress_index: its locals, the output file and the returned value
    dpc, derr, int_to_docid, terms, compressed_index, dTermIdx,
    reconstructed_index, outFile, returned,
    \* the loop of compress_index run as encoding workers and one append pass
    wpc, wtaken, wslices, wnext, wblob, wmeta,
    \* build_index: the collection and vocabulary it reads and its locals
    collection, vocab_file, ipc, ierr, vocab, walk_files, fileIdx, docIdx,
    inverted_index, seen_docs, final_index,
    \* the query functions called on their own: tokens and index given, results
    qpc, qTokens, qSource, qIndex, qWithAnds, qWithAndsRetrieval, qPostfix,
    qAst, qErr, qPostfixRetrieval, qResult, qEvalErr, qAstDocs

codecVars == <<codecPc, vbNumber, vbData, vbErr, vbResult, gapIn, gapMid, gapOut>>

compressVars ==
    <<index, cpc, cerr, sorted_doc_ids, doc_id_to_int, sorted_terms, termIdx,
      current_offset, metadata>>

envVars == <<run, firstRun, truncated>>

decompressVars ==
    <<dpc, derr, int_to_docid, terms, compressed_index, dTermIdx,
      reconstructed_index, outFile, returned>>

workerVars == <<wpc, wtaken, wslices, wnext, wblob, wmeta>>

indexerVars ==
    <<collection, vocab_file, ipc, ierr, vocab, walk_files, fileIdx, docIdx,
      inverted_index, seen_docs, final_index>>

queryVars ==
    <<qpc, qTokens, qSource, qIndex, qWithAnds, qWithAndsRetrieval, qPostfix,
      qAst, qErr, qPostfixRetrieval, qResult, qEvalErr, qAstDocs>>

vars ==
    <<codecVars, compressVars, dir, envVars, decompressVars, workerVars,
      indexerVars, queryVars>>

(***************************************************************************)
(* Bounds of the enumerated inputs.                                        *)
(***************************************************************************)
\* integers -NegSpan..SmallMax are all tried as inputs of variable_byte_encode
SmallMax == 300
NegSpan == 140
\* and the powers of two 2^k and 2^k - 1 for k up to MaxBits
MaxBits == 22
\* raw byte strings handed to variable_byte_decode have at most MaxRawLen bytes
MaxRawLen == 3
\* integer lists handed to delta_encode: at most MaxSeqLen values in 0..MaxSeqVal
MaxSeqLen == 3
MaxSeqVal == 4

RECURSIVE Pow2(_)
Pow2(k) == IF k = 0 THEN 1 ELSE 2 * Pow2(k - 1)

NumInputs ==
    ((0 - NegSpan)..SmallMax)
        \cup {Pow2(k) : k \in 7..MaxBits}
        \cup {Pow2(k) - 1 : k \in 7..MaxBits}

ByteSamples == {0, 1, 127, 128, 129, 255}

\* the integers of the lists handed to variable_byte_encode_list: of one,
\* two and three encoded bytes
ListSamples == {0, 1, 127, 128, 300, 16384}

SeqsUpTo(S, n) == UNION {[1..k -> S] : k \in 0..n}

(***************************************************************************)
(* src/compress_index.py: variable_byte_encode.  The result is the bytes   *)
(* object, or the ValueError that bytes(result) raises when an element of  *)
(* result is outside range(0, 256).                                        *)
(***************************************************************************)
\* the loop with the test number > 128 in place of number >= 128
RECURSIVE vb_encode_loop_gt(_, _)
vb_encode_loop_gt(number, result) ==
    IF number > 128
        THEN vb_encode_loop_gt(number \div 128, Append(result, number % 128))
        ELSE Append(result, number + 128)

\* the loop dividing by 256 in place of 128
RECURSIVE vb_encode_loop_div256(_, _)
vb_encode_loop_div256(number, result) ==
    IF number >= 128
        THEN vb_encode_loop_div256(number \div 256, Append(result, number % 128))
        ELSE Append(result, number + 128)

\* the loop setting bit 7 on every byte but the last
RECURSIVE vb_encode_loop_flag_first(_, _)
vb_encode_loop_flag_first(number, result) ==
    IF number >= 128
        THEN vb_encode_loop_flag_first(number \div 128,
                 Append(result, (number % 128) + 128))
        ELSE Append(result, number)

RECURSIVE vb_encode_loop(_, _)
vb_encode_loop(number, result) ==
    IF number >= 128
        THEN vb_encode_loop(number \div 128, Append(result, number % 128))
        ELSE Append(result, number + 128)

bytes_of(result) ==
    IF \A i \in 1..Len(result) : result[i] \in 0..255
        THEN [err |-> "none", val |-> result]
        ELSE [err |-> "ValueError", val |-> <<>>]

variable_byte_encode(number) ==
    IF number = 0
        THEN [err |-> "none", val |-> <<128>>]
        ELSE bytes_of(vb_encode_loop(number, <<>>))

(***************************************************************************)
(* src/decompress_index.py: variable_byte_decode.  vb_decode_outer is the  *)
(* outer while loop at index i (1-based), vb_decode_inner the inner one.   *)
(* When the data ends inside the inner loop the partial num is appended.   *)
(***************************************************************************)
RECURSIVE vb_decode_outer(_, _, _)
RECURSIVE vb_decode_inner(_, _, _, _, _)
vb_decode_outer(data, i, result) ==
    IF i <= Len(data)
        THEN vb_decode_inner(data, i, 0, 0, result)
        ELSE result

vb_decode_inner(data, i, num, shift, result) ==
    IF i <= Len(data)
        THEN IF data[i] >= 128
                 THEN vb_decode_outer(data, i + 1,
                          Append(result, num + (data[i] - 128) * Pow2(shift)))
                 ELSE vb_decode_inner(data, i + 1,
                          num + data[i] * Pow2(shift), shift + 7, result)
        ELSE vb_decode_outer(data, i, Append(result, num))

\* the decoder returning after the first integer
variable_byte_decode_first_only(data) ==
    LET r == vb_decode_outer(data, 1, <<>>)
    IN IF r = <<>> THEN <<>> ELSE <<r[1]>>

variable_byte_decode(data) == vb_decode_outer(data, 1, <<>>)

(***************************************************************************)
(* src/compress_index.py: delta_encode; src/decompress_index.py:           *)
(* delta_decode.                                                           *)
(***************************************************************************)
delta_encode(numbers) ==
    IF numbers = <<>>
        THEN <<>>
        ELSE [i \in 1..Len(numbers) |->
                 IF i = 1 THEN numbers[1] ELSE numbers[i] - numbers[i - 1]]

\* the loop adding the previous delta in place of the previous result
RECURSIVE delta_decode_loop_prev_delta(_, _, _)
delta_decode_loop_prev_delta(deltas, i, result) ==
    IF i <= Len(deltas)
        THEN delta_decode_loop_prev_delta(deltas, i + 1,
                 Append(result, deltas[i - 1] + deltas[i]))
        ELSE result

RECURSIVE delta_decode_loop(_, _, _)
delta_decode_loop(deltas, i, result) ==
    IF i <= Len(deltas)
        THEN delta_decode_loop(deltas, i + 1,
                 Append(result, result[Len(result)] + deltas[i]))
        ELSE result

delta_decode(deltas) ==
    IF deltas = <<>>
        THEN <<>>
        ELSE delta_decode_loop(deltas, 2, <<deltas[1]>>)

(***************************************************************************)
(* src/compress_index.py: variable_byte_encode_list.  The ValueError of    *)
(* one element propagates out of the loop.                                 *)
(***************************************************************************)
RECURSIVE vb_encode_list_loop(_, _, _)
vb_encode_list_loop(numbers, i, result) ==
    IF i > Len(numbers)
        THEN [err |-> "none", val |-> result]
        ELSE LET e == variable_byte_encode(numbers[i])
             IN IF e.err # "none"
                    THEN [err |-> e.err, val |-> <<>>]
                    ELSE vb_encode_list_loop(numbers, i + 1, result \o e.val)

variable_byte_encode_list(numbers) == vb_encode_list_loop(numbers, 1, <<>>)

(***************************************************************************)
(* Python built-ins used by compress_index and decompress_index.           *)
(***************************************************************************)
\* str < str: code point by code point, a proper prefix is smaller
StrLess(a, b) ==
    \E k \in 1..(Len(a) + 1) :
        /\ \A j \in 1..(k - 1) : j <= Len(b) /\ a[j] = b[j]
        /\ \/ k = Len(a) + 1 /\ k <= Len(b)
           \/ k <= Len(a) /\ k <= Len(b) /\ a[k] < b[k]

\* sorted(S, reverse=True): the greatest string first
RECURSIVE sorted_reversed(_)
sorted_reversed(S) ==
    IF S = {}
        THEN <<>>
        ELSE LET m == CHOOSE x \in S : \A y \in S \ {x} : StrLess(y, x)
             IN <<m>> \o sorted_reversed(S \ {m})

\* sorted(S) of a set (or of the keys of a dict) of strings
RECURSIVE sorted(_)
sorted(S) ==
    IF S = {}
        THEN <<>>
        ELSE LET m == CHOOSE x \in S : \A y \in S \ {x} : StrLess(x, y)
             IN <<m>> \o sorted(S \ {m})

\* list.sort(key=lambda x: x[0]) on (doc_int, positions) pairs: stable
RECURSIVE insert_by_doc_int(_, _)
insert_by_doc_int(lst, item) ==
    IF lst = <<>>
        THEN <<item>>
        ELSE IF lst[Len(lst)].doc_int <= item.doc_int
                 THEN Append(lst, item)
                 ELSE Append(insert_by_doc_int(SubSeq(lst, 1, Len(lst) - 1), item),
                             lst[Len(lst)])

\* the postings left in the order of the input dict
sort_by_doc_int_skipped(lst) == lst

RECURSIVE sort_by_doc_int(_)
sort_by_doc_int(lst) ==
    IF lst = <<>>
        THEN <<>>
        ELSE insert_by_doc_int(sort_by_doc_int(SubSeq(lst, 1, Len(lst) - 1)),
                               lst[Len(lst)])

\* struct.pack('I', n): four bytes, least significant first
struct_pack_I(n) ==
    <<n % 256, (n \div 256) % 256, (n \div 65536) % 256, (n \div 16777216) % 256>>

\* struct.unpack('<I', b)[0] of a four-byte string
struct_unpack_I(b) == b[1] + 256 * b[2] + 65536 * b[3] + 16777216 * b[4]

\* one code point in UTF-8 (code points below 0x800)
utf8_char(c) == IF c < 128 THEN <<c>> ELSE <<192 + (c \div 64), 128 + (c % 64)>>

\* str.encode('utf-8')
RECURSIVE str_encode(_)
str_encode(s) ==
    IF s = <<>> THEN <<>> ELSE utf8_char(Head(s)) \o str_encode(Tail(s))

\* data[a:b] of a bytes object, a and b 0-based and non-negative
Slice(data, a, b) ==
    LET hi == IF b < Len(data) THEN b ELSE Len(data)
    IN IF a >= hi THEN <<>> ELSE SubSeq(data, a + 1, hi)

\* a dict is the sequence of its items [key, value] in insertion order
dict_keys(d) == {d[i].key : i \in 1..Len(d)}

\* d[key], for a key of d
dict_get(d, key) == d[CHOOSE i \in 1..Len(d) : d[i].key = key].value

\* d[key] = value: an old key keeps its place, a new one goes last
dict_set(d, key, value) ==
    IF key \in dict_keys(d)
        THEN [i \in 1..Len(d) |->
                 IF d[i].key = key THEN [key |-> key, value |-> value] ELSE d[i]]
        ELSE Append(d, [key |-> key, value |-> value])

(***************************************************************************)
(* The directory compress_index writes and decompress_index reads.  names  *)
(* is the set of files that exist; the other fields hold their contents.   *)
(* metadata_json is the dict json.dump writes, in its insertion order.     *)
(* compressed_index_bin is the file decompress_index reads: zlib_ok says   *)
(* whether zlib.decompress accepts it, items is the JSON object inside     *)
(* (docids and positions_data after bytes.fromhex).                        *)
(***************************************************************************)
EmptyDir ==
    [names |-> {},
     doc_mapping_bin |-> <<>>,
     terms_txt |-> <<>>,
     compressed_data_bin |-> <<>>,
     metadata_json |-> <<>>,
     docid_mapping_json |-> <<>>,
     terms_json |-> <<>>,
     compressed_index_bin |-> [zlib_ok |-> FALSE, items |-> <<>>]]

(***************************************************************************)
(* src/compress_index.py: compress_index, lines 257-276: the doc-ID map    *)
(* and doc_mapping.bin.                                                    *)
(***************************************************************************)
all_doc_ids(idx) ==
    UNION {dict_keys(idx[t].value) : t \in 1..Len(idx)}

\* the numbering started at 1
enumerate_doc_ids_from_one(sorted_ids) ==
    [d \in {sorted_ids[i] : i \in 1..Len(sorted_ids)} |->
        CHOOSE i \in 1..Len(sorted_ids) : sorted_ids[i] = d]

\* {doc_id: i for i, doc_id in enumerate(sorted_doc_ids)}
enumerate_doc_ids(sorted_ids) ==
    [d \in {sorted_ids[i] : i \in 1..Len(sorted_ids)} |->
        (CHOOSE i \in 1..Len(sorted_ids) : sorted_ids[i] = d) - 1]

RECURSIVE doc_mapping_entries(_, _)
doc_mapping_entries(sorted_ids, i) ==
    IF i > Len(sorted_ids)
        THEN <<>>
        ELSE struct_pack_I(Len(str_encode(sorted_ids[i])))
                 \o str_encode(sorted_ids[i])
                 \o doc_mapping_entries(sorted_ids, i + 1)

doc_mapping_file(sorted_ids) ==
    struct_pack_I(Len(sorted_ids)) \o doc_mapping_entries(sorted_ids, 1)

\* lines 283-286: terms.txt
RECURSIVE terms_file(_, _)
terms_file(sorted_t, i) ==
    IF i > Len(sorted_t)
        THEN <<>>
        ELSE str_encode(sorted_t[i]) \o <<10>> \o terms_file(sorted_t, i + 1)

(***************************************************************************)
(* compress_index, lines 296-328: one term's encoded sections.             *)
(***************************************************************************)
\* lines 299-305
doc_int_postings(postings, d2i) ==
    sort_by_doc_int([i \in 1..Len(postings) |->
        [doc_int |-> d2i[postings[i].key], positions |-> postings[i].value]])

\* lines 318-328: the loop over positions_lists
RECURSIVE encode_positions_loop(_, _, _, _)
encode_positions_loop(positions_lists, i, encoded_positions_data, positions_offsets) ==
    IF i > Len(positions_lists)
        THEN [err |-> "none", data |-> encoded_positions_data,
              offsets |-> positions_offsets]
        ELSE LET encoded_pos ==
                     variable_byte_encode_list(delta_encode(positions_lists[i]))
             IN IF encoded_pos.err # "none"
                    THEN [err |-> encoded_pos.err, data |-> <<>>, offsets |-> <<>>]
                    ELSE encode_positions_loop(positions_lists, i + 1,
                             encoded_positions_data \o encoded_pos.val,
                             Append(positions_offsets, Len(encoded_positions_data)))

\* lines 296-328 and 346
encode_term(postings, d2i) ==
    LET dip == doc_int_postings(postings, d2i)
        doc_ids == [i \in 1..Len(dip) |-> dip[i].doc_int]
        positions_lists == [i \in 1..Len(dip) |-> dip[i].positions]
        encoded_doc_ids == variable_byte_encode_list(delta_encode(doc_ids))
        pos == encode_positions_loop(positions_lists, 1, <<>>, <<>>)
        encoded_offsets ==
            variable_byte_encode_list(Append(pos.offsets, Len(pos.data)))
    IN [err |-> IF encoded_doc_ids.err # "none" THEN encoded_doc_ids.err
                ELSE IF pos.err # "none" THEN pos.err
                ELSE encoded_offsets.err,
        num_docs |-> Len(doc_ids),
        encoded_doc_ids |-> encoded_doc_ids.val,
        encoded_offsets |-> encoded_offsets.val,
        encoded_positions_data |-> pos.data]

\* lines 334-353: the bytes the f.write calls append for one term
term_writes(e) ==
    struct_pack_I(e.num_docs)
        \o struct_pack_I(Len(e.encoded_doc_ids))
        \o e.encoded_doc_ids
        \o struct_pack_I(Len(e.encoded_offsets))
        \o e.encoded_offsets
        \o struct_pack_I(Len(e.encoded_positions_data))
        \o e.encoded_positions_data

\* the advance without the 4 bytes of num_docs
offset_advance_no_num_docs(e) ==
    4 + Len(e.encoded_doc_ids) + (4 + Len(e.encoded_offsets))
        + (4 + Len(e.encoded_positions_data))

\* the advance without the length prefix of the positions data
offset_advance_no_prefix(e) ==
    4 + 4 + Len(e.encoded_doc_ids) + (4 + Len(e.encoded_offsets))
        + Len(e.encoded_positions_data)

\* lines 335-354: what the current_offset += statements add for one term
offset_advance(e) ==
    4 + 4 + Len(e.encoded_doc_ids) + (4 + Len(e.encoded_offsets))
        + (4 + Len(e.encoded_positions_data))

(***************************************************************************)
(* The inputs.  An index is the dict json.load returns: term -> {doc_id -> *)
(* positions}, keys in file order.  Position lists are taken as the file   *)
(* gives them: ascending, or not.                                          *)
(***************************************************************************)
\* an index has the terms of TermPool or some of them, a term at most MaxDocs
\* documents, and the whole index at most MaxPostings (term, document) pairs
MaxDocs == 2
MaxPostings == 3
\* a directory that already holds an older compressor's files is tried with
\* the indexes of at most MaxPostingsOverOld (term, document) pairs
MaxPostingsOverOld == 1

\* "b", "a"
TermPool == {<<98>>, <<97>>}
\* "d2", "d10", "d1"
DocPool == {<<100, 50>>, <<100, 49, 48>>, <<100, 49>>}
PosPool == {<<0, 200>>, <<5, 0>>, <<200, 1>>}

DistinctKeys(d) == \A i, j \in 1..Len(d) : d[i].key = d[j].key => i = j

DictsUpTo(K, V, n) ==
    {d \in SeqsUpTo([key : K, value : V], n) : DistinctKeys(d)}

RECURSIVE SumLen(_, _)
SumLen(d, i) == IF i > Len(d) THEN 0 ELSE Len(d[i].value) + SumLen(d, i + 1)

Indexes ==
    {idx \in DictsUpTo(TermPool, DictsUpTo(DocPool, PosPool, MaxDocs),
                       Cardinality(TermPool)) :
        SumLen(idx, 1) <= MaxPostings}

\* the items of a dict in every order
PermsOf(d) ==
    {[i \in 1..Len(d) |-> d[p[i]]] :
        p \in {q \in [1..Len(d) -> 1..Len(d)] :
                  \A i, j \in 1..Len(d) : q[i] = q[j] => i = j}}

RECURSIVE ValuePerms(_)
ValuePerms(idx) ==
    IF idx = <<>>
        THEN {<<>>}
        ELSE {<<[key |-> Head(idx).key, value |-> v]>> \o rest :
                 v \in PermsOf(Head(idx).value), rest \in ValuePerms(Tail(idx))}

\* the same mapping with its term keys and doc-ID keys in every order
Reorderings(idx) == UNION {PermsOf(j) : j \in ValuePerms(idx)}

\* a directory left by an older compressor: {"a": {"d1": [7]}}
OldArtifacts ==
    [EmptyDir EXCEPT
        !.names = {"docid_mapping.json", "terms.json", "compressed_index.bin"},
        !.docid_mapping_json = <<[key |-> 0, value |-> <<100, 49>>]>>,
        !.terms_json = <<<<97>>>>,
        !.compressed_index_bin =
            [zlib_ok |-> TRUE,
             items |-> <<[key |-> <<97>>,
                          value |-> [docids |-> <<128>>,
                                     positions_data |-> <<1, 0, 0, 0, 135>>,
                                     doc_count |-> 1]]>>]]

\* the files compress_index writes
Artifacts(d) ==
    [doc_mapping_bin |-> d.doc_mapping_bin, terms_txt |-> d.terms_txt,
     compressed_data_bin |-> d.compressed_data_bin,
     metadata_json |-> d.metadata_json]

CodecIdle ==
    /\ codecPc = "off"
    /\ vbNumber = 0
    /\ vbData = <<>>
    /\ vbErr = "none"
    /\ vbResult = <<>>
    /\ gapIn = <<>>
    /\ gapMid = <<>>
    /\ gapOut = <<>>

CompressIdle ==
    /\ cpc = "idle"
    /\ cerr = "none"
    /\ sorted_doc_ids = <<>>
    /\ doc_id_to_int = enumerate_doc_ids(<<>>)
    /\ sorted_terms = <<>>
    /\ termIdx = 0
    /\ current_offset = 0
    /\ metadata = <<>>

EnvIdle ==
    /\ run = 1
    /\ firstRun = [index |-> <<>>, artifacts |-> Artifacts(EmptyDir)]
    /\ truncated = FALSE

DecompressIdle ==
    /\ dpc = "idle"
    /\ derr = "none"
    /\ int_to_docid = <<>>
    /\ terms = <<>>
    /\ compressed_index = <<>>
    /\ dTermIdx = 0
    /\ reconstructed_index = <<>>
    /\ outFile = [exists |-> FALSE, content |-> <<>>]
    /\ returned = <<>>

WorkersIdle ==
    /\ wpc = "idle"
    /\ wtaken = {}
    /\ wslices = <<>>
    /\ wnext = 1
    /\ wblob = <<>>
    /\ wmeta = <<>>

IndexerLocalsIdle ==
    /\ ipc = "idle"
    /\ ierr = "none"
    /\ vocab = {}
    /\ walk_files = <<>>
    /\ fileIdx = 1
    /\ docIdx = 1
    /\ inverted_index = <<>>
    /\ seen_docs = {}
    /\ final_index = <<>>

\* build_index is not called: there is no collection
IndexerIdle ==
    /\ collection = [isdir |-> FALSE, files |-> <<>>]
    /\ vocab_file = {}
    /\ IndexerLocalsIdle

QueryLocalsIdle ==
    /\ qWithAnds = <<>>
    /\ qWithAndsRetrieval = <<>>
    /\ qPostfix = <<>>
    /\ qAst = <<>>
    /\ qErr = "none"
    /\ qPostfixRetrieval = <<>>
    /\ qResult = {}
    /\ qEvalErr = "none"
    /\ qAstDocs = {}

\* no query function is called
QueryIdle ==
    /\ qpc = "off"
    /\ qTokens = <<>>
    /\ qSource = <<>>
    /\ qIndex = <<>>
    /\ QueryLocalsIdle

(***************************************************************************)
(* compress_index(index file, dir), src/compress_index.py lines 237-386.   *)
(***************************************************************************)
\* lines 248-276: makedirs, json.load, the doc-ID map, doc_mapping.bin
CompressBuildDocMapping ==
    /\ cpc = "idle"
    /\ dpc = "idle"
    /\ LET ids == sorted(all_doc_ids(index))
       IN /\ sorted_doc_ids' = ids
          /\ doc_id_to_int' = enumerate_doc_ids(ids)
          /\ dir' = [dir EXCEPT !.names = @ \cup {"doc_mapping.bin"},
                                !.doc_mapping_bin = doc_mapping_file(ids)]
    /\ cpc' = "mapped"
    /\ UNCHANGED <<index, cerr, sorted_terms, termIdx, current_offset, metadata>>
    /\ UNCHANGED <<codecVars, envVars, decompressVars, workerVars, indexerVars, queryVars>>

\* lines 280-293: sorted terms, terms.txt, compressed_data.bin opened 'wb'
CompressWriteTerms ==
    /\ cpc = "mapped"
    /\ LET st == sorted(dict_keys(index))
       IN /\ sorted_terms' = st
          /\ dir' = [dir EXCEPT
                        !.names = @ \cup {"terms.txt", "compressed_data.bin"},
                        !.terms_txt = terms_file(st, 1),
                        !.compressed_data_bin = <<>>]
    /\ metadata' = <<>>
    /\ current_offset' = 0
    /\ termIdx' = 1
    /\ cpc' = "loop"
    /\ UNCHANGED <<index, cerr, sorted_doc_ids, doc_id_to_int>>
    /\ UNCHANGED <<codecVars, envVars, decompressVars, workerVars, indexerVars, queryVars>>

\* lines 295-360: one iteration of the loop over sorted_terms.  A ValueError
\* of variable_byte_encode is raised before anything of the term is written.
CompressTerm ==
    /\ cpc = "loop"
    /\ termIdx <= Len(sorted_terms)
    /\ LET term == sorted_terms[termIdx]
           e == encode_term(dict_get(index, term), doc_id_to_int)
       IN IF e.err # "none"
              THEN /\ cpc' = "failed"
                   /\ cerr' = e.err
                   /\ UNCHANGED <<dir, termIdx, current_offset, metadata>>
              ELSE /\ dir' = [dir EXCEPT !.compressed_data_bin = @ \o term_writes(e)]
                   /\ current_offset' = current_offset + offset_advance(e)
                   /\ metadata' = dict_set(metadata, term,
                                     [offset |-> current_offset,
                                      num_docs |-> e.num_docs])
                   /\ termIdx' = termIdx + 1
                   /\ UNCHANGED <<cpc, cerr>>
    /\ UNCHANGED <<index, sorted_doc_ids, doc_id_to_int, sorted_terms>>
    /\ UNCHANGED <<codecVars, envVars, decompressVars, workerVars, indexerVars, queryVars>>

\* lines 362-386: metadata.json, then the size report
CompressSaveMetadata ==
    /\ cpc = "loop"
    /\ termIdx > Len(sorted_terms)
    /\ dir' = [dir EXCEPT !.names = @ \cup {"metadata.json"},
                          !.metadata_json = metadata]
    /\ cpc' = "done"
    /\ UNCHANGED <<index, cerr, sorted_doc_ids, doc_id_to_int, sorted_terms,
                   termIdx, current_offset, metadata>>
    /\ UNCHANGED <<codecVars, envVars, decompressVars, workerVars, indexerVars, queryVars>>

(***************************************************************************)
(* The caller.                                                             *)
(***************************************************************************)
\* compress_index is called a second time, into a fresh directory, on an
\* index file that holds the same mapping with its keys in another order
CompressAgain ==
    /\ cpc = "done"
    /\ dpc = "idle"
    /\ run = 1
    /\ ~truncated
    /\ index' \in Reorderings(index)
    /\ firstRun' = [index |-> index, artifacts |-> Artifacts(dir)]
    /\ run' = 2
    /\ dir' = EmptyDir
    /\ cpc' = "idle"
    /\ cerr' = "none"
    /\ sorted_doc_ids' = <<>>
    /\ doc_id_to_int' = enumerate_doc_ids(<<>>)
    /\ sorted_terms' = <<>>
    /\ termIdx' = 0
    /\ current_offset' = 0
    /\ metadata' = <<>>
    /\ UNCHANGED <<truncated, codecVars, decompressVars, workerVars, indexerVars, queryVars>>

\* compressed_data.bin loses its last byte
TruncateBlob ==
    /\ cpc = "done"
    /\ dpc = "idle"
    /\ run = 1
    /\ ~truncated
    /\ Len(dir.compressed_data_bin) > 0
    /\ dir' = [dir EXCEPT !.compressed_data_bin = SubSeq(@, 1, Len(@) - 1)]
    /\ truncated' = TRUE
    /\ UNCHANGED <<run, firstRun>>
    /\ UNCHANGED <<codecVars, compressVars, decompressVars, workerVars, indexerVars, queryVars>>

(***************************************************************************)
(* decompress_index(dir, output_file), src/decompress_index.py lines       *)
(* 337-389.                                                                *)
(***************************************************************************)
\* lines 362-377: the loop over range(doc_count), at byte offset `offset`
RECURSIVE positions_loop(_, _, _, _)
positions_loop(positions_data, remaining, offset, positions_list) ==
    IF remaining <= 0
        THEN [err |-> "none", val |-> positions_list]
        ELSE IF offset < Len(positions_data)
            THEN LET head == Slice(positions_data, offset, offset + 4)
                 IN IF Len(head) # 4
                        THEN [err |-> "struct.error", val |-> <<>>]
                        ELSE LET pos_length == struct_unpack_I(head)
                                 pos_bytes == Slice(positions_data, offset + 4,
                                                    offset + 4 + pos_length)
                             IN IF pos_length > 0
                                    THEN positions_loop(positions_data, remaining - 1,
                                             offset + 4 + pos_length,
                                             Append(positions_list,
                                                 delta_decode(variable_byte_decode(pos_bytes))))
                                    ELSE positions_loop(positions_data, remaining - 1,
                                             offset + 4, Append(positions_list, <<>>))
            ELSE positions_loop(positions_data, remaining - 1, offset,
                                Append(positions_list, <<>>))

\* lines 379-382: the loop over zip(docids, positions_list)
RECURSIVE term_postings_loop(_, _, _, _, _)
term_postings_loop(docids, positions_list, i2d, i, term_postings) ==
    IF i > Len(docids) \/ i > Len(positions_list)
        THEN [err |-> "none", val |-> term_postings]
        ELSE IF docids[i] \notin dict_keys(i2d)
            THEN [err |-> "KeyError", val |-> <<>>]
            ELSE term_postings_loop(docids, positions_list, i2d, i + 1,
                     dict_set(term_postings, dict_get(i2d, docids[i]),
                              positions_list[i]))

\* lines 357-382: one term's posting list from its entry of compressed_index
decode_term(data, i2d) ==
    LET docids == delta_decode(variable_byte_decode(data.docids))
        pl == positions_loop(data.positions_data, data.doc_count, 0, <<>>)
    IN IF pl.err # "none"
           THEN pl
           ELSE term_postings_loop(docids, pl.val, i2d, 1, <<>>)

\* lines 338-352: the three files are opened and parsed
DecompressOpen ==
    /\ dpc = "idle"
    /\ cpc \in {"idle", "done", "failed"}
    /\ run = 1
    /\ IF {"docid_mapping.json", "terms.json", "compressed_index.bin"}
              \subseteq dir.names
           THEN IF dir.compressed_index_bin.zlib_ok
                    THEN /\ int_to_docid' = dir.docid_mapping_json
                         /\ terms' = dir.terms_json
                         /\ compressed_index' = dir.compressed_index_bin.items
                         /\ dTermIdx' = 1
                         /\ dpc' = "loop"
                         /\ UNCHANGED derr
                    ELSE /\ dpc' = "failed"
                         /\ derr' = "zlib.error"
                         /\ UNCHANGED <<int_to_docid, terms, compressed_index, dTermIdx>>
           ELSE /\ dpc' = "failed"
                /\ derr' = "FileNotFoundError"
                /\ UNCHANGED <<int_to_docid, terms, compressed_index, dTermIdx>>
    /\ UNCHANGED <<reconstructed_index, outFile, returned>>
    /\ UNCHANGED <<codecVars, compressVars, dir, envVars, workerVars, indexerVars, queryVars>>

\* lines 355-383: one iteration of the loop over terms
DecompressTerm ==
    /\ dpc = "loop"
    /\ dTermIdx <= Len(terms)
    /\ LET term == terms[dTermIdx]
       IN IF term \in dict_keys(compressed_index)
              THEN LET r == decode_term(dict_get(compressed_index, term), int_to_docid)
                   IN IF r.err # "none"
                          THEN /\ dpc' = "failed"
                               /\ derr' = r.err
                               /\ UNCHANGED <<dTermIdx, reconstructed_index>>
                          ELSE /\ reconstructed_index' =
                                      dict_set(reconstructed_index, term, r.val)
                               /\ dTermIdx' = dTermIdx + 1
                               /\ UNCHANGED <<dpc, derr>>
              ELSE /\ dTermIdx' = dTermIdx + 1
                   /\ UNCHANGED <<dpc, derr, reconstructed_index>>
    /\ UNCHANGED <<int_to_docid, terms, compressed_index, outFile, returned>>
    /\ UNCHANGED <<codecVars, compressVars, dir, envVars, workerVars, indexerVars, queryVars>>

\* the save opening terms.json of the directory for writing
DecompressSave_over_terms ==
    /\ dpc = "loop"
    /\ dTermIdx > Len(terms)
    /\ outFile' = [exists |-> TRUE, content |-> reconstructed_index]
    /\ dir' = [dir EXCEPT !.terms_json = <<>>]
    /\ returned' = reconstructed_index
    /\ dpc' = "done"
    /\ UNCHANGED <<derr, int_to_docid, terms, compressed_index, dTermIdx,
                   reconstructed_index>>
    /\ UNCHANGED <<codecVars, compressVars, envVars, workerVars, indexerVars, queryVars>>

\* lines 385-389: the output file is written and the index returned
DecompressSave ==
    /\ dpc = "loop"
    /\ dTermIdx > Len(terms)
    /\ outFile' = [exists |-> TRUE, content |-> reconstructed_index]
    /\ returned' = reconstructed_index
    /\ dpc' = "done"
    /\ UNCHANGED <<derr, int_to_docid, terms, compressed_index, dTermIdx,
                   reconstructed_index>>
    /\ UNCHANGED <<codecVars, compressVars, dir, envVars, workerVars, indexerVars, queryVars>>

(***************************************************************************)
(* The program: an index is compressed into a directory that is new or     *)
(* that holds an older compressor's files, and the directory is            *)
(* decompressed.                                                           *)
(***************************************************************************)
Init ==
    /\ CodecIdle
    /\ index \in Indexes
    /\ dir \in (IF SumLen(index, 1) <= MaxPostingsOverOld
                    THEN {EmptyDir, OldArtifacts}
                    ELSE {EmptyDir})
    /\ CompressIdle
    /\ EnvIdle
    /\ DecompressIdle
    /\ WorkersIdle
    /\ IndexerIdle
    /\ QueryIdle

Next ==
    \/ CompressBuildDocMapping
    \/ CompressWriteTerms
    \/ CompressTerm
    \/ CompressSaveMetadata
    \/ CompressAgain
    \/ TruncateBlob
    \/ DecompressOpen
    \/ DecompressTerm
    \/ DecompressSave

Spec == Init /\ [][Next]_vars

(***************************************************************************)
(* decompress_index called on a directory of the layout it reads.  Every   *)
(* entry of compressed_index.bin pairs a docids string, a positions_data   *)
(* string and a doc_count, whether or not they fit together.               *)
(***************************************************************************)
\* doc_count of an entry is at most MaxDocCount
MaxDocCount == 2

\* VB of [], [0], [0, 1], [1], and the unterminated byte 1
DocidsPool == {<<>>, <<128>>, <<128, 129>>, <<129>>, <<1>>}

\* nothing; [7]; [7] and [0, 5]; three bytes of a length; a length of 2
\* followed by one byte
PosDataPool ==
    {<<>>,
     <<1, 0, 0, 0, 135>>,
     <<1, 0, 0, 0, 135, 2, 0, 0, 0, 128, 133>>,
     <<1, 0, 0>>,
     <<2, 0, 0, 0, 128>>}

EntryPool ==
    [docids : DocidsPool, positions_data : PosDataPool, doc_count : 0..MaxDocCount]

\* {}, {"a": e}, {"b": e}, {"a": e, "b": f}
ItemsPool ==
    {d \in DictsUpTo(TermPool, EntryPool, Cardinality(TermPool)) :
        \A i \in 1..Len(d) : i > 1 => StrLess(d[i - 1].key, d[i].key)}

\* {"0": "d1"} and {"0": "d1", "1": "d2"}
DocidMappingPool ==
    {<<[key |-> 0, value |-> <<100, 49>>]>>,
     <<[key |-> 0, value |-> <<100, 49>>], [key |-> 1, value |-> <<100, 50>>]>>}

\* ["a"] and ["a", "b"]
TermsJsonPool == {<<<<97>>>>, <<<<97>>, <<98>>>>}

ReadableNames == {"docid_mapping.json", "terms.json", "compressed_index.bin"}

ReadableDirs ==
    {[EmptyDir EXCEPT !.names = ReadableNames,
                      !.docid_mapping_json = m,
                      !.terms_json = t,
                      !.compressed_index_bin = [zlib_ok |-> TRUE, items |-> it]] :
        m \in DocidMappingPool, t \in TermsJsonPool, it \in ItemsPool}

\* a file is missing, or compressed_index.bin is not a complete zlib stream
UnreadableDirs ==
    {[OldArtifacts EXCEPT !.names = ReadableNames \ {n}] : n \in ReadableNames}
        \cup {[OldArtifacts EXCEPT !.compressed_index_bin.zlib_ok = FALSE]}

InitDecompress ==
    /\ CodecIdle
    /\ index = <<>>
    /\ dir \in ReadableDirs \cup UnreadableDirs
    /\ CompressIdle
    /\ EnvIdle
    /\ DecompressIdle
    /\ WorkersIdle
    /\ IndexerIdle
    /\ QueryIdle

NextDecompress ==
    \/ DecompressOpen
    \/ DecompressTerm
    \/ DecompressSave

SpecDecompress == InitDecompress /\ [][NextDecompress]_vars

(***************************************************************************)
(* The codec functions called on their own: an integer is encoded and the  *)
(* bytes decoded again, a raw byte string is decoded, an integer list is   *)
(* gap-encoded and decoded again, an integer list is encoded by            *)
(* variable_byte_encode_list and the bytes decoded again.                  *)
(***************************************************************************)
InitCodec ==
    /\ codecPc \in {"int", "raw", "seq", "list"}
    /\ vbNumber \in (IF codecPc = "int" THEN NumInputs ELSE {0})
    /\ vbData \in (IF codecPc = "raw" THEN SeqsUpTo(ByteSamples, MaxRawLen) ELSE {<<>>})
    /\ gapIn \in (IF codecPc = "seq" THEN SeqsUpTo(0..MaxSeqVal, MaxSeqLen)
                  ELSE IF codecPc = "list" THEN SeqsUpTo(ListSamples, MaxSeqLen)
                  ELSE {<<>>})
    /\ vbErr = "none"
    /\ vbResult = <<>>
    /\ gapMid = <<>>
    /\ gapOut = <<>>
    /\ index = <<>>
    /\ dir = EmptyDir
    /\ CompressIdle
    /\ EnvIdle
    /\ DecompressIdle
    /\ WorkersIdle
    /\ IndexerIdle
    /\ QueryIdle

\* variable_byte_encode(vbNumber)
CallVariableByteEncode ==
    /\ codecPc = "int"
    /\ LET r == variable_byte_encode(vbNumber)
       IN /\ vbErr' = r.err
          /\ vbData' = r.val
          /\ codecPc' = IF r.err = "none" THEN "encoded" ELSE "raised"
    /\ UNCHANGED <<vbNumber, vbResult, gapIn, gapMid, gapOut>>
    /\ UNCHANGED <<compressVars, dir, envVars, decompressVars, workerVars, indexerVars, queryVars>>

\* variable_byte_encode_list(gapIn)
CallVariableByteEncodeList ==
    /\ codecPc = "list"
    /\ LET r == variable_byte_encode_list(gapIn)
       IN /\ vbErr' = r.err
          /\ vbData' = r.val
          /\ codecPc' = IF r.err = "none" THEN "listencoded" ELSE "raised"
    /\ UNCHANGED <<vbNumber, vbResult, gapIn, gapMid, gapOut>>
    /\ UNCHANGED <<compressVars, dir, envVars, decompressVars, workerVars, indexerVars, queryVars>>

\* variable_byte_decode(vbData), on an encoder's output or on a raw string
CallVariableByteDecode ==
    /\ codecPc \in {"encoded", "raw", "listencoded"}
    /\ vbResult' = variable_byte_decode(vbData)
    /\ codecPc' = CASE codecPc = "encoded" -> "decoded"
                   [] codecPc = "raw" -> "rawdecoded"
                   [] codecPc = "listencoded" -> "listdecoded"
    /\ UNCHANGED <<vbNumber, vbData, vbErr, gapIn, gapMid, gapOut>>
    /\ UNCHANGED <<compressVars, dir, envVars, decompressVars, workerVars, indexerVars, queryVars>>

\* delta_encode(gapIn)
CallDeltaEncode ==
    /\ codecPc = "seq"
    /\ gapMid' = delta_encode(gapIn)
    /\ codecPc' = "gapped"
    /\ UNCHANGED <<vbNumber, vbData, vbErr, vbResult, gapIn, gapOut>>
    /\ UNCHANGED <<compressVars, dir, envVars, decompressVars, workerVars, indexerVars, queryVars>>

\* delta_decode(gapMid)
CallDeltaDecode ==
    /\ codecPc = "gapped"
    /\ gapOut' = delta_decode(gapMid)
    /\ codecPc' = "ungapped"
    /\ UNCHANGED <<vbNumber, vbData, vbErr, vbResult, gapIn, gapMid>>
    /\ UNCHANGED <<compressVars, dir, envVars, decompressVars, workerVars, indexerVars, queryVars>>

NextCodec ==
    \/ CallVariableByteEncode
    \/ CallVariableByteEncodeList
    \/ CallVariableByteDecode
    \/ CallDeltaEncode
    \/ CallDeltaDecode

SpecCodec == InitCodec /\ [][NextCodec]_vars

(***************************************************************************)
(* The loop of compress_index, lines 295-360, split as spec section 5      *)
(* allows: workers encode the terms' sections (lines 296-331) in any order *)
(* and at most MaxWorkers at a time, each from its term's postings and     *)
(* doc_id_to_int only; one pass appends the slices and assigns the offsets *)
(* (lines 333-360, spec section 4.6) in the order of sorted_terms.  The    *)
(* split runs next to the sequential compress of the same index and writes *)
(* to wblob and wmeta.                                                     *)
(***************************************************************************)
MaxWorkers == 2

\* a worker takes a term no worker has taken
WorkerTake ==
    /\ cpc = "done"
    /\ wpc \in {"idle", "busy"}
    /\ Cardinality(wtaken) < MaxWorkers
    /\ \E term \in dict_keys(index) \ (wtaken \cup dict_keys(wslices)) :
           wtaken' = wtaken \cup {term}
    /\ wpc' = "busy"
    /\ UNCHANGED <<wslices, wnext, wblob, wmeta>>
    /\ UNCHANGED <<codecVars, compressVars, dir, envVars, decompressVars, indexerVars, queryVars>>

\* lines 296-331 for the worker's term: its slice is published
WorkerPublish ==
    /\ wpc = "busy"
    /\ \E term \in wtaken :
           LET e == encode_term(dict_get(index, term), doc_id_to_int)
           IN /\ wslices' = dict_set(wslices, term,
                                [num_docs |-> e.num_docs, bytes |-> term_writes(e)])
              /\ wtaken' = wtaken \ {term}
    /\ UNCHANGED <<wpc, wnext, wblob, wmeta>>
    /\ UNCHANGED <<codecVars, compressVars, dir, envVars, decompressVars, indexerVars, queryVars>>

\* the sequential pass: the slice of the next term of sorted_terms, once
\* published, is appended at the current length of the blob
AppendNext ==
    /\ wpc = "busy"
    /\ wnext <= Len(sorted_terms)
    /\ sorted_terms[wnext] \in dict_keys(wslices)
    /\ LET term == sorted_terms[wnext]
           slice == dict_get(wslices, term)
       IN /\ wmeta' = dict_set(wmeta, term,
                          [offset |-> Len(wblob), num_docs |-> slice.num_docs])
          /\ wblob' = wblob \o slice.bytes
    /\ wnext' = wnext + 1
    /\ UNCHANGED <<wpc, wtaken, wslices>>
    /\ UNCHANGED <<codecVars, compressVars, dir, envVars, decompressVars, indexerVars, queryVars>>

\* every term has been appended
WorkersFinish ==
    /\ cpc = "done"
    /\ wpc \in {"idle", "busy"}
    /\ wnext > Len(sorted_terms)
    /\ wpc' = "done"
    /\ UNCHANGED <<wtaken, wslices, wnext, wblob, wmeta>>
    /\ UNCHANGED <<codecVars, compressVars, dir, envVars, decompressVars, indexerVars, queryVars>>

InitWorkers ==
    /\ CodecIdle
    /\ index \in Indexes
    /\ dir = EmptyDir
    /\ CompressIdle
    /\ EnvIdle
    /\ DecompressIdle
    /\ WorkersIdle
    /\ IndexerIdle
    /\ QueryIdle

NextWorkers ==
    \/ CompressBuildDocMapping
    \/ CompressWriteTerms
    \/ CompressTerm
    \/ CompressSaveMetadata
    \/ WorkerTake
    \/ WorkerPublish
    \/ AppendNext
    \/ WorkersFinish

SpecWorkers == InitWorkers /\ [][NextWorkers]_vars

(***************************************************************************)
(* src/index.py: build_index(collection_dir, vocab_path), lines 69-161.    *)
(* A collection is a directory of JSONL files, listed in any order; a      *)
(* document is its doc_id field and the words of its text field.  A doc_id *)
(* is a str, an int, None (JSON null) or missing from the object.  Strings *)
(* are sequences of code points.                                           *)
(***************************************************************************)
\* at most MaxDocsIn documents in the files of a collection
MaxDocsIn == 2

\* lines 16-20 on one word: lowercase, then digits and non-ASCII removed
RECURSIVE preprocess_text(_)
preprocess_text(word) ==
    IF word = <<>>
        THEN <<>>
        ELSE LET c == Head(word)
                 lower == IF c >= 65 /\ c <= 90 THEN c + 32 ELSE c
             IN IF (lower >= 48 /\ lower <= 57) \/ lower > 127
                    THEN preprocess_text(Tail(word))
                    ELSE <<lower>> \o preprocess_text(Tail(word))

\* lines 35-43: cleaned.split() of the text field; a word cleaned to nothing
\* leaves no token
RECURSIVE extract_tokens(_)
extract_tokens(text) ==
    IF text = <<>>
        THEN <<>>
        ELSE LET cleaned == preprocess_text(Head(text))
             IN (IF cleaned = <<>> THEN <<>> ELSE <<cleaned>>)
                    \o extract_tokens(Tail(text))

\* lines 57-62: the objects of a file that have a doc_id key
RECURSIVE load_documents(_)
load_documents(lines) ==
    IF lines = <<>>
        THEN <<>>
        ELSE (IF Head(lines).doc_id.type = "missing" THEN <<>> ELSE <<Head(lines)>>)
                 \o load_documents(Tail(lines))

\* str(n) for an int of one digit
str_of_int(n) == <<48 + n>>

\* lines 102-104: the doc_id as a str, "" for None
resolve_doc_id(raw) ==
    CASE raw.type = "str" -> raw.str
      [] raw.type = "int" -> str_of_int(raw.int)
      [] OTHER -> <<>>

\* the test that never finds a doc_id seen
is_seen_never(doc_id, seen) == FALSE

\* line 107
is_seen(doc_id, seen) == doc_id \in seen

\* a defaultdict read: the value of the key, the default for a new key
defaultdict_get(d, key) == IF key \in dict_keys(d) THEN dict_get(d, key) ELSE <<>>

\* the loop reading postings_for_term[token] before the vocabulary test, so
\* that the defaultdict makes an entry for every token
RECURSIVE index_tokens_lookup_first(_, _, _, _, _)
index_tokens_lookup_first(inv, voc, doc_id, tokens, i) ==
    IF i > Len(tokens)
        THEN inv
        ELSE LET postings == defaultdict_get(inv, tokens[i])
                 plist == defaultdict_get(postings, doc_id)
             IN index_tokens_lookup_first(
                    IF tokens[i] \in voc
                        THEN dict_set(inv, tokens[i],
                                 dict_set(postings, doc_id, Append(plist, i - 1)))
                        ELSE dict_set(inv, tokens[i], postings),
                    voc, doc_id, tokens, i + 1)

\* lines 120-124: the loop over enumerate(tokens); i - 1 is pos
RECURSIVE index_tokens(_, _, _, _, _)
index_tokens(inv, voc, doc_id, tokens, i) ==
    IF i > Len(tokens)
        THEN inv
        ELSE IF tokens[i] \in voc
            THEN LET postings == defaultdict_get(inv, tokens[i])
                     plist == defaultdict_get(postings, doc_id)
                 IN index_tokens(
                        dict_set(inv, tokens[i],
                            dict_set(postings, doc_id, Append(plist, i - 1))),
                        voc, doc_id, tokens, i + 1)
            ELSE index_tokens(inv, voc, doc_id, tokens, i + 1)

\* list.sort() of a list of ints
RECURSIVE list_sort(_)
list_sort(q) ==
    IF q = <<>>
        THEN <<>>
        ELSE LET rest == list_sort(Tail(q))
                 k == Cardinality({i \in 1..Len(rest) : rest[i] <= Head(q)})
             IN SubSeq(rest, 1, k) \o <<Head(q)>> \o SubSeq(rest, k + 1, Len(rest))

\* files.sort(): the entries of the directory by name
sort_files(files) ==
    LET names == sorted({files[i].key : i \in 1..Len(files)})
    IN [i \in 1..Len(names) |-> [key |-> names[i], value |-> dict_get(files, names[i])]]

\* lines 138-140 and 154-157: positions sorted, terms and doc_ids in sorted order
ordered_index(inv) ==
    LET ts == sorted(dict_keys(inv))
    IN [t \in 1..Len(ts) |->
           [key |-> ts[t],
            value |-> LET docs_map == dict_get(inv, ts[t])
                          ds == sorted(dict_keys(docs_map))
                      IN [d \in 1..Len(ds) |->
                             [key |-> ds[d],
                              value |-> list_sort(dict_get(docs_map, ds[d]))]]]]

\* lines 71-86: the directory test, load_vocabulary, the start of the walk
IndexerStart ==
    /\ ipc = "idle"
    /\ IF collection.isdir
           THEN /\ vocab' = vocab_file
                /\ walk_files' = sort_files(collection.files)
                /\ ipc' = "walk"
                /\ UNCHANGED ierr
           ELSE /\ ipc' = "failed"
                /\ ierr' = "FileNotFoundError"
                /\ UNCHANGED <<vocab, walk_files>>
    /\ UNCHANGED <<collection, vocab_file, fileIdx, docIdx, inverted_index,
                   seen_docs, final_index>>
    /\ UNCHANGED <<codecVars, compressVars, dir, envVars, decompressVars,
                   workerVars, queryVars>>

\* lines 100-124: one iteration of the loop over the documents of a file
IndexDocument ==
    /\ ipc = "walk"
    /\ fileIdx <= Len(walk_files)
    /\ LET documents == load_documents(walk_files[fileIdx].value)
       IN /\ docIdx <= Len(documents)
          /\ LET doc == documents[docIdx]
                 doc_id == resolve_doc_id(doc.doc_id)
             IN IF doc_id = <<>> \/ is_seen(doc_id, seen_docs)
                    THEN UNCHANGED <<inverted_index, seen_docs>>
                    ELSE /\ seen_docs' = seen_docs \cup {doc_id}
                         /\ inverted_index' =
                                index_tokens(inverted_index, vocab, doc_id,
                                             extract_tokens(doc.text), 1)
    /\ docIdx' = docIdx + 1
    /\ UNCHANGED <<collection, vocab_file, ipc, ierr, vocab, walk_files, fileIdx,
                   final_index>>
    /\ UNCHANGED <<codecVars, compressVars, dir, envVars, decompressVars,
                   workerVars, queryVars>>

\* lines 87-93 and 126-132: the documents of the file are done, the next file
IndexNextFile ==
    /\ ipc = "walk"
    /\ fileIdx <= Len(walk_files)
    /\ docIdx > Len(load_documents(walk_files[fileIdx].value))
    /\ fileIdx' = fileIdx + 1
    /\ docIdx' = 1
    /\ UNCHANGED <<collection, vocab_file, ipc, ierr, vocab, walk_files,
                   inverted_index, seen_docs, final_index>>
    /\ UNCHANGED <<codecVars, compressVars, dir, envVars, decompressVars,
                   workerVars, queryVars>>

\* lines 134-161: the positions sorted, the index ordered and returned
IndexerFinish ==
    /\ ipc = "walk"
    /\ fileIdx > Len(walk_files)
    /\ final_index' = ordered_index(inverted_index)
    /\ ipc' = "done"
    /\ UNCHANGED <<collection, vocab_file, ierr, vocab, walk_files, fileIdx,
                   docIdx, inverted_index, seen_docs>>
    /\ UNCHANGED <<codecVars, compressVars, dir, envVars, decompressVars,
                   workerVars, queryVars>>

\* doc_ids: missing, null, "", "1", 1, "d2"
DocIdPool ==
    {[type |-> "missing", str |-> <<>>, int |-> 0],
     [type |-> "NoneType", str |-> <<>>, int |-> 0],
     [type |-> "str", str |-> <<>>, int |-> 0],
     [type |-> "str", str |-> <<49>>, int |-> 0],
     [type |-> "int", str |-> <<>>, int |-> 1],
     [type |-> "str", str |-> <<100, 50>>, int |-> 0]}

\* texts: "x", "x u 7 Y x", "u"
TextPool == {<<<<120>>>>, <<<<120>>, <<117>>, <<55>>, <<89>>, <<120>>>>, <<<<117>>>>}

\* the vocabulary file: "x", "y"
VocabPool == {<<120>>, <<121>>}

DocPoolIn == [doc_id : DocIdPool, text : TextPool]

\* two files, "f2" listed before "f1", with at most MaxDocsIn documents
Collections ==
    {[isdir |-> TRUE,
      files |-> <<[key |-> <<102, 50>>, value |-> d2],
                  [key |-> <<102, 49>>, value |-> d1]>>] :
        <<d1, d2>> \in {p \in SeqsUpTo(DocPoolIn, MaxDocsIn)
                               \X SeqsUpTo(DocPoolIn, MaxDocsIn) :
                           Len(p[1]) + Len(p[2]) <= MaxDocsIn}}

InitIndexer ==
    /\ CodecIdle
    /\ index = <<>>
    /\ dir = EmptyDir
    /\ CompressIdle
    /\ EnvIdle
    /\ DecompressIdle
    /\ WorkersIdle
    /\ collection \in Collections \cup {[isdir |-> FALSE, files |-> <<>>]}
    /\ vocab_file = VocabPool
    /\ IndexerLocalsIdle
    /\ QueryIdle

NextIndexer ==
    \/ IndexerStart
    \/ IndexDocument
    \/ IndexNextFile
    \/ IndexerFinish

SpecIndexer == InitIndexer /\ [][NextIndexer]_vars

(***************************************************************************)
(* The Boolean queries: src/query_preprocessing.py insert_implicit_ands,   *)
(* src/query_parser.py BooleanQueryParser, src/retrieval.py                *)
(* BooleanQueryParser.  A token is a string; a list is a sequence, a stack *)
(* a sequence with its top last.  A function that can raise returns the    *)
(* exception's name in err.                                                *)
(***************************************************************************)
\* the rule treating NOT on the right like AND and OR
should_insert_and_not_as_binary(current_token, next_token) ==
    /\ current_token \notin {"AND", "OR"}
    /\ next_token \notin {"AND", "OR", "NOT"}
    /\ current_token # "("
    /\ next_token # ")"
    /\ current_token # "NOT"

\* query_preprocessing.py lines 96-117: the chain of tests on a pair of tokens
should_insert_and(current_token, next_token) ==
    /\ current_token \notin {"AND", "OR"}
    /\ next_token \notin {"AND", "OR"}
    /\ current_token # "("
    /\ next_token # ")"
    /\ current_token # "NOT"

\* query_preprocessing.py lines 64-122
RECURSIVE insert_implicit_ands_loop(_, _, _)
insert_implicit_ands_loop(tokens, i, result) ==
    IF i > Len(tokens)
        THEN result
        ELSE insert_implicit_ands_loop(tokens, i + 1,
                 IF i < Len(tokens) /\ should_insert_and(tokens[i], tokens[i + 1])
                     THEN result \o <<tokens[i], "AND">>
                     ELSE Append(result, tokens[i]))

insert_implicit_ands(tokens) ==
    IF tokens = <<>> THEN tokens ELSE insert_implicit_ands_loop(tokens, 1, <<>>)

\* retrieval.py lines 72-81: the tests on a pair of tokens
retrieval_should_insert_and(current, next_token) ==
    LET operators == {"AND", "OR", "NOT"}
        next_ok == \/ (next_token \notin operators /\ next_token # ")")
                   \/ next_token = "("
                   \/ next_token = "NOT"
    IN IF current \notin operators /\ current # "(" /\ current # ")"
           THEN next_ok
           ELSE IF current = ")" THEN next_ok ELSE FALSE

\* retrieval.py lines 54-86
RECURSIVE retrieval_insert_implicit_ands_loop(_, _, _)
retrieval_insert_implicit_ands_loop(tokens, i, result) ==
    IF i > Len(tokens)
        THEN result
        ELSE retrieval_insert_implicit_ands_loop(tokens, i + 1,
                 IF i < Len(tokens)
                        /\ retrieval_should_insert_and(tokens[i], tokens[i + 1])
                     THEN result \o <<tokens[i], "AND">>
                     ELSE Append(result, tokens[i]))

retrieval_insert_implicit_ands(tokens) ==
    IF tokens = <<>>
        THEN tokens
        ELSE retrieval_insert_implicit_ands_loop(tokens, 1, <<>>)

\* list.pop() leaves the list without its last element
Pop(stack) == SubSeq(stack, 1, Len(stack) - 1)

Top(stack) == stack[Len(stack)]

\* query_parser.py lines 56-58
is_operator(token) == token \in {"AND", "OR", "NOT"}

\* AND and OR of one precedence
get_precedence_and_as_or(operator) ==
    CASE operator = "OR" -> 1
      [] operator = "AND" -> 1
      [] operator = "NOT" -> 3
      [] OTHER -> 0

\* query_parser.py lines 43-47 and 60-62
get_precedence(operator) ==
    CASE operator = "OR" -> 1
      [] operator = "AND" -> 2
      [] operator = "NOT" -> 3
      [] OTHER -> 0

\* query_parser.py lines 50-54
associativity(operator) == IF operator = "NOT" THEN "R" ELSE "L"

\* query_parser.py lines 83-84 and retrieval.py lines 111-112
RECURSIVE pop_until_paren(_, _)
pop_until_paren(output, operator_stack) ==
    IF operator_stack # <<>> /\ Top(operator_stack) # "("
        THEN pop_until_paren(Append(output, Top(operator_stack)), Pop(operator_stack))
        ELSE [output |-> output, operator_stack |-> operator_stack]

\* query_parser.py lines 92-98
RECURSIVE pop_operators(_, _, _)
pop_operators(output, operator_stack, token) ==
    IF /\ operator_stack # <<>>
       /\ Top(operator_stack) # "("
       /\ is_operator(Top(operator_stack))
       /\ \/ get_precedence(Top(operator_stack)) > get_precedence(token)
          \/ /\ get_precedence(Top(operator_stack)) = get_precedence(token)
             /\ associativity(token) = "L"
        THEN pop_operators(Append(output, Top(operator_stack)), Pop(operator_stack),
                           token)
        ELSE [output |-> output, operator_stack |-> operator_stack]

\* query_parser.py lines 77-104: the loop over the tokens
RECURSIVE infix_to_postfix_loop(_, _, _, _)
infix_to_postfix_loop(tokens, i, output, operator_stack) ==
    IF i > Len(tokens)
        THEN [output |-> output, operator_stack |-> operator_stack]
        ELSE LET token == tokens[i]
             IN CASE token = "(" ->
                       infix_to_postfix_loop(tokens, i + 1, output,
                                             Append(operator_stack, token))
                  [] token = ")" ->
                       LET r == pop_until_paren(output, operator_stack)
                       IN infix_to_postfix_loop(tokens, i + 1, r.output,
                              IF r.operator_stack # <<>>
                                     /\ Top(r.operator_stack) = "("
                                  THEN Pop(r.operator_stack)
                                  ELSE r.operator_stack)
                  [] is_operator(token) ->
                       LET r == pop_operators(output, operator_stack, token)
                       IN infix_to_postfix_loop(tokens, i + 1, r.output,
                              Append(r.operator_stack, token))
                  [] OTHER ->
                       infix_to_postfix_loop(tokens, i + 1, Append(output, token),
                                             operator_stack)

\* query_parser.py lines 107-110: the remaining operators; a parenthesis raises
RECURSIVE pop_remaining(_, _)
pop_remaining(output, operator_stack) ==
    IF operator_stack = <<>>
        THEN [err |-> "none", val |-> output]
        ELSE IF Top(operator_stack) \in {"(", ")"}
            THEN [err |-> "ValueError", val |-> <<>>]
            ELSE pop_remaining(Append(output, Top(operator_stack)),
                               Pop(operator_stack))

\* query_parser.py lines 64-112
infix_to_postfix(tokens) ==
    LET r == infix_to_postfix_loop(tokens, 1, <<>>, <<>>)
    IN pop_remaining(r.output, r.operator_stack)

\* query_parser.py lines 4-10: an ASTNode as the tuple of its fields
None == <<>>

ASTNode(value, left, right) == <<value, left, right>>

\* query_parser.py lines 118-138: the loop over the postfix tokens
RECURSIVE postfix_to_ast_loop(_, _, _)
postfix_to_ast_loop(postfix_tokens, i, stack) ==
    IF i > Len(postfix_tokens)
        THEN [err |-> "none", stack |-> stack]
        ELSE LET token == postfix_tokens[i]
             IN IF is_operator(token)
                    THEN IF token = "NOT"
                             THEN IF stack = <<>>
                                      THEN [err |-> "ValueError", stack |-> <<>>]
                                      ELSE postfix_to_ast_loop(postfix_tokens, i + 1,
                                               Append(Pop(stack),
                                                   ASTNode(token, None, Top(stack))))
                             ELSE IF Len(stack) < 2
                                      THEN [err |-> "ValueError", stack |-> <<>>]
                                      ELSE postfix_to_ast_loop(postfix_tokens, i + 1,
                                               Append(Pop(Pop(stack)),
                                                   ASTNode(token, Top(Pop(stack)),
                                                           Top(stack))))
                    ELSE postfix_to_ast_loop(postfix_tokens, i + 1,
                             Append(stack, ASTNode(token, None, None)))

\* query_parser.py lines 114-143
postfix_to_ast(postfix_tokens) ==
    LET r == postfix_to_ast_loop(postfix_tokens, 1, <<>>)
    IN IF r.err # "none" \/ Len(r.stack) # 1
           THEN [err |-> "ValueError", val |-> None]
           ELSE [err |-> "none", val |-> r.stack[1]]

\* query_parser.py lines 145-177; a node is a term, NOT, AND or OR
RECURSIVE evaluate_ast(_, _)
evaluate_ast(node, document_terms) ==
    CASE ~is_operator(node[1]) -> node[1] \in document_terms
      [] node[1] = "NOT" -> ~evaluate_ast(node[3], document_terms)
      [] node[1] = "AND" ->
             evaluate_ast(node[2], document_terms)
                 /\ evaluate_ast(node[3], document_terms)
      [] node[1] = "OR" ->
             evaluate_ast(node[2], document_terms)
                 \/ evaluate_ast(node[3], document_terms)

\* query_parser.py lines 179-204: every exception leaves as a ValueError
parse_query(query_tokens) ==
    LET postfix == infix_to_postfix(query_tokens)
    IN IF postfix.err # "none"
           THEN [err |-> "ValueError", postfix |-> <<>>, ast |-> None]
           ELSE LET ast == postfix_to_ast(postfix.val)
                IN IF ast.err # "none"
                       THEN [err |-> "ValueError", postfix |-> <<>>, ast |-> None]
                       ELSE [err |-> "none", postfix |-> postfix.val, ast |-> ast.val]

\* retrieval.py line 14
retrieval_precedence(operator) ==
    CASE operator = "OR" -> 1
      [] operator = "AND" -> 2
      [] operator = "NOT" -> 3

\* retrieval.py lines 100-106
RECURSIVE retrieval_pop_operators(_, _, _)
retrieval_pop_operators(output, operator_stack, token) ==
    IF /\ operator_stack # <<>>
       /\ Top(operator_stack) # "("
       /\ Top(operator_stack) \in {"AND", "OR", "NOT"}
       /\ \/ retrieval_precedence(Top(operator_stack)) > retrieval_precedence(token)
          \/ /\ retrieval_precedence(Top(operator_stack))
                    = retrieval_precedence(token)
             /\ token \notin {"NOT"}
        THEN retrieval_pop_operators(Append(output, Top(operator_stack)),
                                     Pop(operator_stack), token)
        ELSE [output |-> output, operator_stack |-> operator_stack]

\* retrieval.py lines 94-114: the loop over the tokens
RECURSIVE retrieval_infix_to_postfix_loop(_, _, _, _)
retrieval_infix_to_postfix_loop(tokens, i, output, operator_stack) ==
    IF i > Len(tokens)
        THEN [output |-> output, operator_stack |-> operator_stack]
        ELSE LET token == tokens[i]
             IN CASE token \notin {"AND", "OR", "NOT", "(", ")"} ->
                       retrieval_infix_to_postfix_loop(tokens, i + 1,
                           Append(output, token), operator_stack)
                  [] token \in {"AND", "OR", "NOT"} ->
                       LET r == retrieval_pop_operators(output, operator_stack, token)
                       IN retrieval_infix_to_postfix_loop(tokens, i + 1, r.output,
                              Append(r.operator_stack, token))
                  [] token = "(" ->
                       retrieval_infix_to_postfix_loop(tokens, i + 1, output,
                           Append(operator_stack, token))
                  [] token = ")" ->
                       LET r == pop_until_paren(output, operator_stack)
                       IN retrieval_infix_to_postfix_loop(tokens, i + 1, r.output,
                              IF r.operator_stack # <<>>
                                     /\ Top(r.operator_stack) = "("
                                  THEN Pop(r.operator_stack)
                                  ELSE r.operator_stack)

\* retrieval.py lines 117-118: the remaining stack, parentheses included
RECURSIVE retrieval_pop_remaining(_, _)
retrieval_pop_remaining(output, operator_stack) ==
    IF operator_stack = <<>>
        THEN output
        ELSE retrieval_pop_remaining(Append(output, Top(operator_stack)),
                                     Pop(operator_stack))

\* retrieval.py lines 88-120
retrieval_infix_to_postfix(tokens) ==
    LET r == retrieval_infix_to_postfix_loop(tokens, 1, <<>>, <<>>)
    IN retrieval_pop_remaining(r.output, r.operator_stack)

\* the universe of NOT taken from the first term of the index only
all_docs_first_term(inv_index) ==
    IF inv_index = <<>> THEN {} ELSE dict_keys(inv_index[1].value)

\* retrieval.py lines 149-151
all_docs(inv_index) ==
    UNION {dict_keys(inv_index[t].value) : t \in 1..Len(inv_index)}

\* OR for AND
intersection_as_union(left, right) == left \cup right

\* retrieval.py line 131
intersection(left, right) == left \cap right

\* the test left out
has_operands_unchecked(stack, n) == TRUE

\* retrieval.py lines 128, 137 and 146: len(stack) >= n
has_operands(stack, n) == Len(stack) >= n

\* retrieval.py lines 126-165: the loop over the postfix tokens.  stack.pop()
\* on an empty list raises IndexError.
RECURSIVE evaluate_postfix_loop(_, _, _, _)
evaluate_postfix_loop(postfix, i, stack, inv_index) ==
    IF i > Len(postfix)
        THEN [err |-> "none", stack |-> stack]
        ELSE LET token == postfix[i]
             IN CASE token \in {"AND", "OR"} ->
                       IF has_operands(stack, 2)
                           THEN IF Len(stack) < 2
                                    THEN [err |-> "IndexError", stack |-> <<>>]
                                    ELSE LET right == Top(stack)
                                             left == Top(Pop(stack))
                                         IN evaluate_postfix_loop(postfix, i + 1,
                                                Append(Pop(Pop(stack)),
                                                    IF token = "AND"
                                                        THEN intersection(left, right)
                                                        ELSE left \cup right),
                                                inv_index)
                           ELSE evaluate_postfix_loop(postfix, i + 1,
                                    Append(stack, {}), inv_index)
                  [] token = "NOT" ->
                       IF has_operands(stack, 1)
                           THEN IF Len(stack) < 1
                                    THEN [err |-> "IndexError", stack |-> <<>>]
                                    ELSE evaluate_postfix_loop(postfix, i + 1,
                                             Append(Pop(stack),
                                                 all_docs(inv_index) \ Top(stack)),
                                             inv_index)
                           ELSE evaluate_postfix_loop(postfix, i + 1,
                                    Append(stack, {}), inv_index)
                  [] OTHER ->
                       evaluate_postfix_loop(postfix, i + 1,
                           Append(stack,
                               IF token \in dict_keys(inv_index)
                                   THEN dict_keys(dict_get(inv_index, token))
                                   ELSE {}),
                           inv_index)

\* retrieval.py lines 122-167
evaluate_postfix(postfix, inv_index) ==
    LET r == evaluate_postfix_loop(postfix, 1, <<>>, inv_index)
    IN IF r.err # "none"
           THEN [err |-> r.err, val |-> {}]
           ELSE [err |-> "none", val |-> IF r.stack # <<>> THEN r.stack[1] ELSE {}]

\* retrieval.py lines 173-185, on the tokens preprocess_query returned
parse_and_evaluate(tokens, inv_index) ==
    IF tokens = <<>>
        THEN [err |-> "none", postfix |-> <<>>, val |-> {}]
        ELSE LET tokens_with_ands == retrieval_insert_implicit_ands(tokens)
                 postfix == retrieval_infix_to_postfix(tokens_with_ands)
                 result == evaluate_postfix(postfix, inv_index)
             IN [err |-> result.err, postfix |-> postfix, val |-> result.val]

(***************************************************************************)
(* The query functions called on their own.  A query is a list of          *)
(* preprocessed tokens: any short list, or the infix form of an expression *)
(* tree; it goes through insert_implicit_ands, parse_query,                *)
(* parse_and_evaluate and evaluate_ast.  A postfix list, any short list or *)
(* the postfix form of a tree, goes through evaluate_postfix.              *)
(***************************************************************************)
\* lists of any tokens have at most MaxTokens tokens
MaxTokens == 3

QueryTerms == {"a", "b"}

TokenPool == QueryTerms \cup {"AND", "OR", "NOT", "(", ")"}

\* the trees over S and the trees with one operator over them
TreesOver(S) ==
    S \cup {ASTNode("NOT", None, x) : x \in S}
      \cup {ASTNode(op, x, y) : op \in {"AND", "OR"}, x \in S, y \in S}

Leaves == {ASTNode(t, None, None) : t \in QueryTerms}

\* a binary operator with a leaf on one side, or NOT, over trees of S
SpineOver(S) ==
    {ASTNode("NOT", None, x) : x \in S}
      \cup {ASTNode(op, x, y) : op \in {"AND", "OR"}, x \in S, y \in Leaves}
      \cup {ASTNode(op, x, y) : op \in {"AND", "OR"}, x \in Leaves, y \in S}

\* NOT a AND b OR c
ExampleTree ==
    ASTNode("OR",
        ASTNode("AND", ASTNode("NOT", None, ASTNode("a", None, None)),
                       ASTNode("b", None, None)),
        ASTNode("c", None, None))

Trees == SpineOver(TreesOver(TreesOver(Leaves))) \cup TreesOver(TreesOver(Leaves))
             \cup {ExampleTree}

\* the binding strength of the root of a tree: OR, AND, NOT, term
Strength(node) ==
    CASE node[1] = "OR" -> 1
      [] node[1] = "AND" -> 2
      [] node[1] = "NOT" -> 3
      [] OTHER -> 4

\* the infix tokens of a tree with the parentheses its grouping needs and no
\* others: around an operand that binds less than its operator, and around a
\* right operand of AND or OR that binds the same
RECURSIVE Infix(_)
Infix(node) ==
    LET Paren(child, needed) ==
            IF needed THEN <<"(">> \o Infix(child) \o <<")">> ELSE Infix(child)
    IN CASE node[1] = "NOT" /\ node[2] = None /\ node[3] # None ->
              <<"NOT">> \o Paren(node[3], Strength(node[3]) < 3)
         [] node[1] \in {"AND", "OR"} /\ node[3] # None ->
              Paren(node[2], Strength(node[2]) < Strength(node))
                  \o <<node[1]>>
                  \o Paren(node[3], Strength(node[3]) <= Strength(node))
         [] OTHER -> <<node[1]>>

\* the postfix tokens of a tree: operands first, left before right
RECURSIVE Postorder(_)
Postorder(node) ==
    (IF node[2] # None THEN Postorder(node[2]) ELSE <<>>)
        \o (IF node[3] # None THEN Postorder(node[3]) ELSE <<>>)
        \o <<node[1]>>

\* indexes: {}, {"a": {"d1": [0]}, "b": {"d1": [1], "d2": [0]}} and
\* {"a": {"d1": [0], "d2": [0]}, "z": {"d3": [0]}}
QueryIndexes ==
    {<<>>,
     <<[key |-> "a", value |-> <<[key |-> "d1", value |-> <<0>>]>>],
       [key |-> "b", value |-> <<[key |-> "d1", value |-> <<1>>],
                                 [key |-> "d2", value |-> <<0>>]>>]>>,
     <<[key |-> "a", value |-> <<[key |-> "d1", value |-> <<0>>],
                                 [key |-> "d2", value |-> <<0>>]>>],
       [key |-> "z", value |-> <<[key |-> "d3", value |-> <<0>>]>>]>>}

InitQuery ==
    /\ CodecIdle
    /\ index = <<>>
    /\ dir = EmptyDir
    /\ CompressIdle
    /\ EnvIdle
    /\ DecompressIdle
    /\ WorkersIdle
    /\ IndexerIdle
    /\ qpc \in {"query", "postfix"}
    /\ qSource \in Trees \cup {None}
    /\ qTokens \in (IF qSource = None
                       THEN SeqsUpTo(TokenPool, MaxTokens)
                       ELSE IF qpc = "query" THEN {Infix(qSource)}
                                             ELSE {Postorder(qSource)})
    /\ qIndex \in QueryIndexes
    /\ QueryLocalsIdle

\* insert_implicit_ands(qTokens), of query_preprocessing.py and of retrieval.py
CallInsertImplicitAnds ==
    /\ qpc = "query"
    /\ qWithAnds' = insert_implicit_ands(qTokens)
    /\ qWithAndsRetrieval' = retrieval_insert_implicit_ands(qTokens)
    /\ qpc' = "anded"
    /\ UNCHANGED <<qTokens, qSource, qIndex, qPostfix, qAst, qErr,
                   qPostfixRetrieval, qResult, qEvalErr, qAstDocs>>
    /\ UNCHANGED <<codecVars, compressVars, dir, envVars, decompressVars,
                   workerVars, indexerVars>>

\* parse_query(qWithAnds) of query_parser.py
CallParseQuery ==
    /\ qpc = "anded"
    /\ LET r == parse_query(qWithAnds)
       IN /\ qErr' = r.err
          /\ qPostfix' = r.postfix
          /\ qAst' = r.ast
    /\ qpc' = "parsed"
    /\ UNCHANGED <<qTokens, qSource, qIndex, qWithAnds, qWithAndsRetrieval,
                   qPostfixRetrieval, qResult, qEvalErr, qAstDocs>>
    /\ UNCHANGED <<codecVars, compressVars, dir, envVars, decompressVars,
                   workerVars, indexerVars>>

\* parse_and_evaluate of retrieval.py on qTokens and qIndex
CallParseAndEvaluate ==
    /\ qpc = "parsed"
    /\ LET r == parse_and_evaluate(qTokens, qIndex)
       IN /\ qEvalErr' = r.err
          /\ qPostfixRetrieval' = r.postfix
          /\ qResult' = r.val
    /\ qpc' = "evaluated"
    /\ UNCHANGED <<qTokens, qSource, qIndex, qWithAnds, qWithAndsRetrieval,
                   qPostfix, qAst, qErr, qAstDocs>>
    /\ UNCHANGED <<codecVars, compressVars, dir, envVars, decompressVars,
                   workerVars, indexerVars>>

\* evaluate_ast(qAst, terms of d) for every doc ID d of qIndex
CallEvaluateAst ==
    /\ qpc = "evaluated"
    /\ qErr = "none"
    /\ qAstDocs' =
           {d \in all_docs(qIndex) :
               evaluate_ast(qAst,
                   {qIndex[t].key : t \in {u \in 1..Len(qIndex) :
                                               d \in dict_keys(qIndex[u].value)}})}
    /\ qpc' = "compared"
    /\ UNCHANGED <<qTokens, qSource, qIndex, qWithAnds, qWithAndsRetrieval,
                   qPostfix, qAst, qErr, qPostfixRetrieval, qResult, qEvalErr>>
    /\ UNCHANGED <<codecVars, compressVars, dir, envVars, decompressVars,
                   workerVars, indexerVars>>

\* evaluate_postfix(qTokens, qIndex) of retrieval.py
CallEvaluatePostfix ==
    /\ qpc = "postfix"
    /\ LET r == evaluate_postfix(qTokens, qIndex)
       IN /\ qEvalErr' = r.err
          /\ qResult' = r.val
    /\ qpc' = "postfixed"
    /\ UNCHANGED <<qTokens, qSource, qIndex, qWithAnds, qWithAndsRetrieval,
                   qPostfix, qAst, qErr, qPostfixRetrieval, qAstDocs>>
    /\ UNCHANGED <<codecVars, compressVars, dir, envVars, decompressVars,
                   workerVars, indexerVars>>

NextQuery ==
    \/ CallInsertImplicitAnds
    \/ CallParseQuery
    \/ CallParseAndEvaluate
    \/ CallEvaluateAst
    \/ CallEvaluatePostfix

SpecQuery == InitQuery /\ [][NextQuery]_vars

(***************************************************************************)
(* Properties.                                                             *)
(***************************************************************************)
RECURSIVE SortedInts(_)
SortedInts(q) ==
    IF q = <<>>
        THEN <<>>
        ELSE LET rest == SortedInts(Tail(q))
                 k == Cardinality({i \in 1..Len(rest) : rest[i] < Head(q)})
             IN SubSeq(rest, 1, k) \o <<Head(q)>> \o SubSeq(rest, k + 1, Len(rest))

IsAscending(q) == \A i \in 1..Len(q) : i > 1 => q[i - 1] <= q[i]

\* every position list of the index is ascending and non-negative
WellFormed(idx) ==
    \A t \in 1..Len(idx) : \A p \in 1..Len(idx[t].value) :
        /\ IsAscending(idx[t].value[p].value)
        /\ \A i \in 1..Len(idx[t].value[p].value) : idx[t].value[p].value[i] >= 0

\* same terms, same documents per term, same positions per document
SameIndex(x, y) ==
    /\ dict_keys(x) = dict_keys(y)
    /\ \A term \in dict_keys(x) :
          /\ dict_keys(dict_get(x, term)) = dict_keys(dict_get(y, term))
          /\ \A doc \in dict_keys(dict_get(x, term)) :
                SortedInts(dict_get(dict_get(x, term), doc))
                    = SortedInts(dict_get(dict_get(y, term), doc))

\* C1: once a well-formed index has been compressed into a directory and
\* decompress_index has run on that directory, decompress_index has succeeded
\* and returned an index with the same terms, documents and positions.
FullRoundTrip ==
    (cpc = "done" /\ ~truncated /\ WellFormed(index) /\ dpc \in {"done", "failed"})
        => (dpc = "done" /\ SameIndex(returned, index))

\* C2: for every n >= 0 variable_byte_encode(n) returns bytes, and
\* variable_byte_decode of these bytes is the one-element list [n].
VBRoundTrip ==
    vbNumber >= 0 =>
        /\ codecPc # "raised"
        /\ codecPc = "decoded" => vbResult = <<vbNumber>>

\* an integer of three encoded bytes has gone through encode and decode
VBRoundTripWitness ==
    codecPc = "decoded" /\ vbNumber >= 16384 /\ Len(vbData) = 3

\* C3: delta_decode(delta_encode(seq)) = seq for every ascending seq, the
\* empty and the one-element sequences included.
GapRoundTrip ==
    (codecPc = "ungapped" /\ IsAscending(gapIn)) => gapOut = gapIn

\* a strictly ascending three-element sequence has gone through both
GapRoundTripWitness ==
    /\ codecPc = "ungapped"
    /\ Len(gapIn) = 3
    /\ 0 < gapIn[1] /\ gapIn[1] < gapIn[2] /\ gapIn[2] < gapIn[3]

\* the bytes compress_index writes for the i-th entry of metadata.json
EntrySlice(i) ==
    term_writes(encode_term(dict_get(index, dir.metadata_json[i].key), doc_id_to_int))

\* C4: the running offset equals the number of bytes written so far, and
\* after compress the entries of metadata.json, which are in ascending term
\* order, partition compressed_data.bin: the first offset is 0, each offset
\* plus the length of the term's slice is the next offset, and the last end is
\* the size of the file.
LexiconPartition ==
    LET m == dir.metadata_json
        blob == dir.compressed_data_bin
    IN /\ (cpc \in {"loop", "done", "failed"} /\ ~truncated)
              => current_offset = Len(blob)
       /\ (cpc = "done" /\ ~truncated) =>
              /\ Len(m) = Len(sorted_terms)
              /\ \A i \in 1..Len(m) : m[i].key = sorted_terms[i]
              /\ Len(m) > 0 => m[1].value.offset = 0
              /\ \A i \in 1..Len(m) :
                    /\ Slice(blob, m[i].value.offset,
                             m[i].value.offset + Len(EntrySlice(i))) = EntrySlice(i)
                    /\ m[i].value.offset + Len(EntrySlice(i))
                           = (IF i < Len(m) THEN m[i + 1].value.offset ELSE Len(blob))

\* two terms have been written, the second one behind the first
LexiconPartitionWitness ==
    /\ cpc = "done"
    /\ ~truncated
    /\ Len(dir.metadata_json) = 2
    /\ dir.metadata_json[2].value.offset > 0
    /\ dir.metadata_json[2].value.offset < Len(dir.compressed_data_bin)

\* C5: the second compress call, on the same mapping with its term keys and
\* doc-ID keys in another order, completes and leaves the same doc_mapping.bin,
\* terms.txt, compressed_data.bin and metadata.json as the first.
Determinism ==
    run = 2 =>
        /\ cpc # "failed"
        /\ cpc = "done" => Artifacts(dir) = firstRun.artifacts

\* the second call had both the terms and the documents of a term in another
\* order than the first
DeterminismWitness ==
    /\ run = 2
    /\ cpc = "done"
    /\ Len(index) = 2
    /\ index[1].key # firstRun.index[1].key
    /\ \E t \in 1..2 :
          /\ Len(index[t].value) = 2
          /\ index[t].value[1].key = dict_get(firstRun.index, index[t].key)[2].key

\* C6: doc_id_to_int maps the doc IDs of the index one-to-one onto 0..N-1 and
\* preserves the order of the strings.
DocIDMapBijection ==
    cpc \in {"mapped", "loop", "done", "failed"} =>
        LET ids == all_doc_ids(index)
            N == Cardinality(all_doc_ids(index))
        IN /\ DOMAIN doc_id_to_int = ids
           /\ {doc_id_to_int[d] : d \in ids} = 0..(N - 1)
           /\ \A a, b \in ids : doc_id_to_int[a] = doc_id_to_int[b] => a = b
           /\ \A a, b \in ids : StrLess(a, b) => doc_id_to_int[a] < doc_id_to_int[b]

\* three doc IDs have been numbered, and the first one of the file is not the
\* smallest
DocIDMapBijectionWitness ==
    /\ cpc = "done"
    /\ Cardinality(all_doc_ids(index)) = 3
    /\ doc_id_to_int[index[1].value[1].key] > 0

\* the errors of decoding: of zlib, of struct.unpack, of the doc-ID lookup
DecodeErrors == {"zlib.error", "struct.error", "KeyError"}

\* C7: once compressed_data.bin has lost its last byte, decompress_index on
\* the directory fails with a decode error.
TruncationDetected ==
    (truncated /\ dpc \in {"done", "failed"})
        => (dpc = "failed" /\ derr \in DecodeErrors)

\* C8: decompress_index completes only if every term of terms.json had its
\* entry in compressed_index.bin and no document was left without positions
\* data: it skips no term and substitutes no empty position list.
DecodeErrorsAbort ==
    dpc = "done" =>
        \A i \in 1..Len(terms) :
            /\ terms[i] \in dict_keys(compressed_index)
            /\ LET data == dict_get(compressed_index, terms[i])
               IN ~(data.doc_count > 0 /\ data.positions_data = <<>>)

\* C9: variable_byte_encode of a negative integer raises and returns no bytes.
EncodeRejectsNegative ==
    (vbNumber < 0 /\ codecPc \in {"encoded", "decoded", "raised"})
        => (codecPc = "raised" /\ vbData = <<>>)

\* the data ends with a byte whose bit 7 is clear
EndsInPartial(data) == Len(data) > 0 /\ data[Len(data)] < 128

\* C10: variable_byte_decode of data that ends inside an integer raises; it
\* returns no list.
DecodeRejectsTruncated ==
    (codecPc = "rawdecoded" /\ EndsInPartial(vbData)) => vbErr = "TruncatedData"

\* lines 362-377 followed on positions_data: whether the data ran out before
\* `remaining` documents were read, and the offset reached
RECURSIVE PositionsScan(_, _, _)
PositionsScan(positions_data, remaining, offset) ==
    IF remaining <= 0
        THEN [ran_out |-> FALSE, end |-> offset]
        ELSE IF offset + 4 > Len(positions_data)
            THEN [ran_out |-> TRUE, end |-> offset]
            ELSE LET pos_length ==
                         struct_unpack_I(Slice(positions_data, offset, offset + 4))
                 IN IF offset + 4 + pos_length > Len(positions_data)
                        THEN [ran_out |-> TRUE, end |-> offset]
                        ELSE PositionsScan(positions_data, remaining - 1,
                                           offset + 4 + pos_length)

\* C11: a term is decoded only if its data holds exactly doc_count documents:
\* decompress_index completes only if, for every term it decoded, the encoded
\* data did not run out before doc_count documents were read and nothing was
\* left unconsumed after them.
DecoderRejectsMalformed ==
    dpc = "done" =>
        \A i \in 1..Len(terms) :
            terms[i] \in dict_keys(compressed_index) =>
                LET data == dict_get(compressed_index, terms[i])
                    scan == PositionsScan(data.positions_data, data.doc_count, 0)
                IN /\ Len(variable_byte_decode(data.docids)) = data.doc_count
                   /\ ~scan.ran_out
                   /\ scan.end = Len(data.positions_data)

\* the bytes of compressed_data.bin between the offset of the i-th entry of
\* metadata.json and the next offset
WrittenSlice(i) ==
    LET m == dir.metadata_json
    IN Slice(dir.compressed_data_bin, m[i].value.offset,
             IF i < Len(m) THEN m[i + 1].value.offset
                           ELSE Len(dir.compressed_data_bin))

\* the integers of one document in the layout of spec section 4.4: doc gap,
\* tf, position gaps of the ascending positions
RECURSIVE LayoutDocs(_, _, _)
LayoutDocs(dip, gaps, i) ==
    IF i > Len(dip)
        THEN <<>>
        ELSE <<gaps[i], Len(dip[i].positions)>>
                 \o delta_encode(SortedInts(dip[i].positions))
                 \o LayoutDocs(dip, gaps, i + 1)

\* VB(df), then per document VB(doc_gap), VB(tf) and the VB position gaps
LayoutSlice(postings) ==
    LET dip == doc_int_postings(postings, doc_id_to_int)
        gaps == delta_encode([i \in 1..Len(dip) |-> dip[i].doc_int])
    IN variable_byte_encode_list(<<Len(dip)>> \o LayoutDocs(dip, gaps, 1)).val

\* C12: the slice compress has written for a term is VB(df) followed, per
\* document in ascending integer doc-ID order, by VB(doc_gap), VB(tf) and the
\* VB position gaps, and nothing else.
SliceLayout ==
    (cpc = "done" /\ ~truncated) =>
        \A i \in 1..Len(dir.metadata_json) :
            WrittenSlice(i) = LayoutSlice(dict_get(index, dir.metadata_json[i].key))

RECURSIVE BitLength(_)
BitLength(n) == IF n = 0 THEN 0 ELSE 1 + BitLength(n \div 2)

CeilDiv(a, b) == (a + b - 1) \div b

Max(a, b) == IF a >= b THEN a ELSE b

\* C13 as stated: variable_byte_encode(n) has ceil((bitlength(n) + 1) / 7)
\* bytes, at least 1, for every n >= 0.
EncodedLengthPlusOne ==
    (vbNumber >= 0 /\ codecPc \in {"encoded", "decoded", "raised"}) =>
        /\ codecPc # "raised"
        /\ Len(vbData) = Max(1, CeilDiv(BitLength(vbNumber) + 1, 7))

\* C13 amended: variable_byte_encode(n) has ceil(bitlength(n) / 7) bytes, at
\* least 1, for every n >= 0.
EncodedLength ==
    (vbNumber >= 0 /\ codecPc \in {"encoded", "decoded", "raised"}) =>
        /\ codecPc # "raised"
        /\ Len(vbData) = Max(1, CeilDiv(BitLength(vbNumber), 7))

\* 127, of bit length 7, has been encoded in one byte
EncodedLengthWitness ==
    /\ codecPc = "encoded"
    /\ vbNumber = 127 /\ Len(vbData) = 1

\* C14: variable_byte_encode(0) is the one byte 0x80, and in the encoding of
\* every n >= 0 the last byte has bit 7 set and no other byte has.
FinalByteFlag ==
    (vbNumber >= 0 /\ codecPc \in {"encoded", "decoded", "raised"}) =>
        /\ codecPc # "raised"
        /\ vbNumber = 0 => vbData = <<128>>
        /\ Len(vbData) >= 1
        /\ vbData[Len(vbData)] >= 128
        /\ \A i \in 1..(Len(vbData) - 1) : vbData[i] < 128

\* an integer of four encoded bytes has been encoded
FinalByteFlagWitness ==
    codecPc = "encoded" /\ vbNumber >= 2097152 /\ Len(vbData) = 4

\* C15: for a term without documents compress writes the single byte 0x80
\* and nothing else.
EmptyPostingsSlice ==
    (cpc = "done" /\ ~truncated) =>
        \A i \in 1..Len(dir.metadata_json) :
            dir.metadata_json[i].value.num_docs = 0 => WrittenSlice(i) = <<128>>

\* "format_version", "encoding", "has_positions", "doc_base"
MetaKeys ==
    {<<102, 111, 114, 109, 97, 116, 95, 118, 101, 114, 115, 105, 111, 110>>,
     <<101, 110, 99, 111, 100, 105, 110, 103>>,
     <<104, 97, 115, 95, 112, 111, 115, 105, 116, 105, 111, 110, 115>>,
     <<100, 111, 99, 95, 98, 97, 115, 101>>}

\* C16: the metadata file compress writes holds the four fields
\* format_version, encoding, has_positions and doc_base and nothing that
\* comes from the index: no entry per term.
FixedMetadata ==
    cpc = "done" =>
        /\ dict_keys(dir.metadata_json) = MetaKeys
        /\ dict_keys(dir.metadata_json) \cap dict_keys(index) = {}

ReadSlice(s) ==
    LET l1 == struct_unpack_I(Slice(s, 4, 8))
        l2 == struct_unpack_I(Slice(s, 8 + l1, 12 + l1))
        l3 == struct_unpack_I(Slice(s, 12 + l1 + l2, 16 + l1 + l2))
    IN [num_docs |-> struct_unpack_I(Slice(s, 0, 4)),
        doc_ids |-> Slice(s, 8, 8 + l1),
        offsets |-> Slice(s, 12 + l1, 12 + l1 + l2),
        positions |-> Slice(s, 16 + l1 + l2, 16 + l1 + l2 + l3)]

\* the VB position gaps of the ascending positions of documents i.. of dip
RECURSIVE SortedPositionsData(_, _)
SortedPositionsData(dip, i) ==
    IF i > Len(dip)
        THEN <<>>
        ELSE variable_byte_encode_list(
                 delta_encode(SortedInts(dip[i].positions))).val
             \o SortedPositionsData(dip, i + 1)

\* C18: compress sorts the positions of every document itself: it does not
\* fail on a position list that is not ascending, and the position bytes it
\* writes for a term are the VB gaps of the ascending positions, whatever the
\* order of the positions in the index.
EncoderSortsPositions ==
    /\ cpc # "failed"
    /\ (cpc = "done" /\ ~truncated) =>
           \A i \in 1..Len(dir.metadata_json) :
               ReadSlice(WrittenSlice(i)).positions =
                   SortedPositionsData(
                       doc_int_postings(dict_get(index, dir.metadata_json[i].key),
                                        doc_id_to_int), 1)

MinOf(q) == CHOOSE x \in {q[i] : i \in 1..Len(q)} : \A i \in 1..Len(q) : x <= q[i]

\* C19: in the slice written for a term the doc gaps run over the ascending
\* integer IDs of the term's documents, the first gap being the first ID
\* itself, and the position gaps of every document start again from 0: the
\* first position gap of a document is its smallest position.
GapsPerList ==
    (cpc = "done" /\ ~truncated) =>
        \A i \in 1..Len(dir.metadata_json) :
            LET postings == dict_get(index, dir.metadata_json[i].key)
                ids == SortedInts([p \in 1..Len(postings) |->
                                      doc_id_to_int[postings[p].key]])
                dip == doc_int_postings(postings, doc_id_to_int)
                r == ReadSlice(WrittenSlice(i))
                gaps == variable_byte_decode(r.doc_ids)
                offs == variable_byte_decode(r.offsets)
            IN /\ Len(gaps) = Len(ids)
               /\ \A j \in 1..Len(ids) :
                      gaps[j] = ids[j] - (IF j = 1 THEN 0 ELSE ids[j - 1])
               /\ \A j \in 1..Len(dip) :
                      dip[j].positions # <<>> =>
                          variable_byte_decode(
                              Slice(r.positions, offs[j], offs[j + 1]))[1]
                              = MinOf(dip[j].positions)

\* C20: compress takes the terms in strictly ascending order: each step that
\* records a term records one greater than every term recorded before, at an
\* offset not below any recorded before, which is the end of the bytes written
\* so far; the bytes written before stay in place, and the term is the next
\* one of the ascending term list written to terms.txt.
TermOrder ==
    [][Len(metadata') = Len(metadata) + 1 =>
          LET n == Len(metadata')
              new == metadata'[n]
              blob == dir.compressed_data_bin
          IN /\ \A i \in 1..Len(metadata) :
                    /\ StrLess(metadata[i].key, new.key)
                    /\ metadata[i].value.offset <= new.value.offset
             /\ new.value.offset = Len(blob)
             /\ Slice(dir'.compressed_data_bin, 0, Len(blob)) = blob
             /\ new.key = sorted_terms[n]
             /\ \A j \in 1..Len(sorted_terms) :
                    j > 1 => StrLess(sorted_terms[j - 1], sorted_terms[j])
             /\ dir.terms_txt = terms_file(sorted_terms, 1)]_vars

\* compress has finished on an index whose keys were in descending order
TermOrderWitness ==
    /\ cpc = "done"
    /\ Len(index) = 2
    /\ StrLess(index[2].key, index[1].key)
    /\ Len(dir.metadata_json) = 2
    /\ dir.metadata_json[1].key = index[2].key
    /\ dir.metadata_json[1].value.offset < dir.metadata_json[2].value.offset

\* C30: variable_byte_decode(variable_byte_encode_list(xs)) = xs for every
\* list xs of non-negative integers: the same integers, in order, as many;
\* variable_byte_encode_list raises on none of them.
VBListRoundTrip ==
    /\ codecPc = "raised" => gapIn = <<>>
    /\ codecPc = "listdecoded" => vbResult = gapIn

\* a list of a three-byte integer, 0 and a two-byte integer has gone through
\* variable_byte_encode_list and variable_byte_decode
VBListRoundTripWitness ==
    /\ codecPc = "listdecoded"
    /\ gapIn = <<16384, 0, 300>>
    /\ Len(vbData) = 6

\* C21: no step of decompress_index changes a file of the directory it
\* reads (doc map, term list, blob) or the index file; what it writes is the
\* output file, a file of its own.  No step of compress_index changes the
\* index it was given.
ReadOnlyOnArtifacts ==
    [][/\ (dpc' # dpc \/ dTermIdx' # dTermIdx \/ outFile' # outFile)
           => (dir' = dir /\ index' = index)
       /\ ((cpc' # cpc \/ termIdx' # termIdx) /\ run' = run)
           => index' = index]_vars

\* compress_index has run, and decompress_index has read a directory and
\* written a non-empty index to the output file
ReadOnlyOnArtifactsWitness ==
    /\ cpc = "done"
    /\ dpc = "done"
    /\ outFile.exists
    /\ outFile.content # <<>>
    /\ dir.terms_json # <<>>

\* C22: build_index never makes an empty posting: in the index it returns,
\* and in the one it is building, every term is a token of the vocabulary and
\* has at least one document, and every document of a term has at least one
\* position.
NoEmptyPosting ==
    \A idx \in {inverted_index, final_index} :
        \A t \in 1..Len(idx) :
            /\ idx[t].key \in vocab_file
            /\ Len(idx[t].value) >= 1
            /\ \A d \in 1..Len(idx[t].value) : Len(idx[t].value[d].value) >= 1

\* build_index has returned an index of two terms from a collection with a
\* document whose text has a token outside the vocabulary and a word of digits
NoEmptyPostingWitness ==
    /\ ipc = "done"
    /\ Len(final_index) = 2
    /\ \E f \in 1..Len(collection.files) :
           \E d \in 1..Len(collection.files[f].value) :
               /\ Len(collection.files[f].value[d].text) = 5
               /\ resolve_doc_id(collection.files[f].value[d].doc_id) # <<>>

\* the documents of the collection in the order of the names of their files
RECURSIVE DocsInNameOrder(_)
DocsInNameOrder(files) ==
    IF files = <<>>
        THEN <<>>
        ELSE LET m == CHOOSE i \in 1..Len(files) :
                          \A j \in 1..Len(files) :
                              j # i => StrLess(files[i].key, files[j].key)
             IN files[m].value
                    \o DocsInNameOrder([k \in 1..(Len(files) - 1) |->
                                           IF k < m THEN files[k] ELSE files[k + 1]])

\* the first document, in that order, that carries doc_id
FirstCarrier(doc_id) ==
    LET docs == DocsInNameOrder(collection.files)
        carriers == {i \in 1..Len(docs) :
                        /\ docs[i].doc_id.type # "missing"
                        /\ resolve_doc_id(docs[i].doc_id) = doc_id}
    IN IF carriers = {}
           THEN <<>>
           ELSE extract_tokens(docs[CHOOSE i \in carriers :
                                        \A j \in carriers : i <= j].text)

\* the positions, counted from 0, of term in tokens
PositionsIn(term, tokens) ==
    LET RECURSIVE from(_)
        from(i) == IF i > Len(tokens)
                       THEN <<>>
                       ELSE (IF tokens[i] = term THEN <<i - 1>> ELSE <<>>)
                                \o from(i + 1)
    IN from(1)

\* the doc_id the step IndexDocument is about to take
CurrentDocId ==
    resolve_doc_id(load_documents(walk_files[fileIdx].value)[docIdx].doc_id)

\* C23: first doc_id wins.  A step of build_index on a document whose doc_id
\* is empty or was seen before leaves the index as it is; and in the index
\* build_index returns, the postings of every doc_id are those of the first
\* document, in sorted file order, that carries it: a term has the doc_id
\* exactly if that document has the term, at the positions it has there.  The
\* empty doc_id has no postings.
FirstDocIdWins ==
    /\ [][(ipc = "walk" /\ docIdx' = docIdx + 1
               /\ (CurrentDocId = <<>> \/ CurrentDocId \in seen_docs))
              => inverted_index' = inverted_index]_vars
    /\ [](ipc = "done" =>
             \A term \in vocab_file :
                 LET postings == defaultdict_get(final_index, term)
                 IN /\ <<>> \notin dict_keys(postings)
                    /\ \A f \in 1..Len(collection.files) :
                           \A d \in 1..Len(collection.files[f].value) :
                               LET doc_id == resolve_doc_id(
                                       collection.files[f].value[d].doc_id)
                                   pos == PositionsIn(term, FirstCarrier(doc_id))
                               IN doc_id # <<>> =>
                                      IF pos = <<>>
                                          THEN doc_id \notin dict_keys(postings)
                                          ELSE /\ doc_id \in dict_keys(postings)
                                               /\ dict_get(postings, doc_id) = pos)

\* file "f1" holds a document "1" of text "x" and file "f2", listed first, a
\* document 1 of text "x u 7 Y x": the index returned has the first one only
FirstDocIdWinsWitness ==
    /\ ipc = "done"
    /\ final_index = <<[key |-> <<120>>,
                        value |-> <<[key |-> <<49>>, value |-> <<0>>]>>]>>
    /\ Len(collection.files[1].value) = 1
    /\ collection.files[1].value[1].doc_id.type = "int"
    /\ Len(collection.files[1].value[1].text) = 5
    /\ Len(collection.files[2].value) = 1

\* the terms of a token list, in order
RECURSIVE TermsOf(_)
TermsOf(tokens) ==
    IF tokens = <<>>
        THEN <<>>
        ELSE (IF Head(tokens) \in {"AND", "OR", "NOT", "(", ")"}
                  THEN <<>> ELSE <<Head(tokens)>>)
                 \o TermsOf(Tail(tokens))

\* C24: for the infix tokens of an expression tree, written with precedence
\* parentheses > NOT > AND > OR, AND and OR grouping to the left and NOT to
\* the right, infix_to_postfix returns the postfix form of that tree, in
\* query_parser.py and in retrieval.py: no parenthesis in it, the terms in
\* their order; and postfix_to_ast gives the tree back.
ShuntingYardPrecedence ==
    (qSource # None /\ qpc \in {"parsed", "evaluated", "compared"}) =>
        /\ qWithAnds = qTokens
        /\ qErr = "none"
        /\ qPostfix = Postorder(qSource)
        /\ qAst = qSource
        /\ \A k \in 1..Len(qPostfix) : qPostfix[k] \notin {"(", ")"}
        /\ TermsOf(qPostfix) = TermsOf(qTokens)
        /\ qpc \in {"evaluated", "compared"} => qPostfixRetrieval = qPostfix

\* NOT a AND b OR c has been parsed as ((NOT a) AND b) OR c
ShuntingYardPrecedenceWitness ==
    /\ qpc = "compared"
    /\ qTokens = <<"NOT", "a", "AND", "b", "OR", "c">>
    /\ qPostfix = <<"a", "NOT", "b", "AND", "c", "OR">>
    /\ qPostfixRetrieval = qPostfix

\* the tokens with an AND between every two neighbours of which the left is
\* a term or ")" and the right a term, "(" or NOT
RECURSIVE WithAnds(_)
WithAnds(tokens) ==
    IF Len(tokens) <= 1
        THEN tokens
        ELSE LET l == tokens[1]
                 r == tokens[2]
                 IsTerm(t) == t \notin {"AND", "OR", "NOT", "(", ")"}
             IN (IF (IsTerm(l) \/ l = ")") /\ (IsTerm(r) \/ r = "(" \/ r = "NOT")
                     THEN <<l, "AND">> ELSE <<l>>)
                    \o WithAnds(Tail(tokens))

RECURSIVE OpenParens(_, _)
OpenParens(tokens, n) ==
    IF n = 0
        THEN 0
        ELSE LET before == OpenParens(tokens, n - 1)
             IN IF before < 0
                    THEN before
                    ELSE CASE tokens[n] = "(" -> before + 1
                           [] tokens[n] = ")" -> before - 1
                           [] OTHER -> before

\* C26: parse_query raises ValueError, and returns neither postfix nor AST,
\* for every token list with an unclosed "(" or a ")" without its "(".
MismatchedParensRejected ==
    (qpc \in {"parsed", "evaluated", "compared"}
         /\ OpenParens(qWithAnds, Len(qWithAnds)) # 0) =>
        /\ qErr = "ValueError"
        /\ qPostfix = <<>>
        /\ qAst = None

\* every doc ID of an index
DocIdsOf(idx) ==
    {idx[t].value[d].key : <<t, d>> \in
        {p \in (1..Len(idx)) \X (1..2) : p[2] <= Len(idx[p[1]].value)}}

\* the documents of an expression tree: a term is its posting list's doc
\* IDs, AND intersection, OR union, NOT the complement in the index's doc IDs
RECURSIVE Documents(_, _)
Documents(node, idx) ==
    CASE node[1] = "NOT" /\ node[3] # None -> DocIdsOf(idx) \ Documents(node[3], idx)
      [] node[1] = "AND" /\ node[3] # None ->
             Documents(node[2], idx) \cap Documents(node[3], idx)
      [] node[1] = "OR" /\ node[3] # None ->
             Documents(node[2], idx) \cup Documents(node[3], idx)
      [] OTHER ->
             {d \in DocIdsOf(idx) :
                 \E t \in 1..Len(idx) :
                     /\ idx[t].key = node[1]
                     /\ \E k \in 1..Len(idx[t].value) : idx[t].value[k].key = d}

\* C27: for the postfix form of an expression tree and any index,
\* evaluate_postfix returns the documents of the tree: a term read as the doc
\* IDs of its posting list (none if it is not in the index), AND as
\* intersection, OR as union, NOT as complement in all doc IDs of the index.
PostfixSemantics ==
    (qpc = "postfixed" /\ qSource # None) =>
        /\ qEvalErr = "none"
        /\ qResult = Documents(qSource, qIndex)

\* NOT a evaluated on an index where d3 has only the term z
PostfixSemanticsWitness ==
    /\ qpc = "postfixed"
    /\ qTokens = <<"a", "NOT">>
    /\ qResult = {"d3"}

\* C28: evaluate_postfix raises on no token list, malformed ones included,
\* and what it returns, called on its own or by parse_and_evaluate, is a set
\* of doc IDs of the index.
EvaluatePostfixTotal ==
    qpc \in {"postfixed", "evaluated", "compared"} =>
        /\ qEvalErr = "none"
        /\ qResult \subseteq DocIdsOf(qIndex)

\* a AND, an operator short of an operand, has been evaluated
EvaluatePostfixTotalWitness ==
    /\ qpc = "postfixed"
    /\ qTokens = <<"a", "AND">>
    /\ qResult = {"d1"}

\* C29: for the infix tokens of an expression tree and any index, a doc ID of
\* the index is in the result of retrieval.py's evaluation exactly if
\* evaluate_ast is true of the tree query_parser.py built, on the set of the
\* terms that have the doc ID.
EvaluatorsAgree ==
    (qpc = "compared" /\ qSource # None) =>
        \A d \in DocIdsOf(qIndex) : d \in qResult <=> d \in qAstDocs

\* b AND NOT a was true of d2 alone, in both evaluators
EvaluatorsAgreeWitness ==
    /\ qpc = "compared"
    /\ qTokens = <<"b", "AND", "NOT", "a">>
    /\ qResult = {"d2"}
    /\ qAstDocs = {"d2"}

=============================================================================
